---- MODULE Spec2Model ----
(***************************************************************************)
(* Model of the auth-template repository: the storage layer (profiles      *)
(* table, row-level policies, stored procedures) and the server-side       *)
(* session resolver / authorization helpers that call it.                  *)
(***************************************************************************)
EXTENDS Integers, Sequences, FiniteSets, TLC

\* ------------------------------------------------------------------ values

\* SQL NULL, and JavaScript null / undefined.
NULL == "NULL"

\* Nullable objects: None is null, Some(x) is the object x.
None == <<>>
Some(x) == <<x>>
Get(o) == o[1]

\* Subject ids (UUIDs of auth.users rows).
Users == {"u1", "u2"}

\* Largest value of the transaction clock NOW().
MaxClock == 1

\* Values of the JWT role claim; NULL is a token without the claim (or no token).
Roles == {NULL, "authenticated", "service_role"}

\* Values callers pass as required_permission / permission; NULL is "omitted".
Permissions == {NULL, "read", "write"}

\* A JSON metadata document; a key that is absent reads as NULL.
EmptyMeta == [full_name |-> NULL, avatar_url |-> NULL]
FullMeta == [full_name |-> "Ann", avatar_url |-> "pic"]

\* Three-valued SQL logic: "t", "f" and NULL (unknown).
SqlEq(a, b) == IF a = NULL \/ b = NULL THEN NULL ELSE IF a = b THEN "t" ELSE "f"
SqlOr(a, b) == IF a = "t" \/ b = "t" THEN "t"
               ELSE IF a = NULL \/ b = NULL THEN NULL ELSE "f"
COALESCE(a, b) == IF a # NULL THEN a ELSE b

\* ------------------------------------------------------------------ state

VARIABLES
    authUsers,  \* the auth.users table: a set of rows [id, email, raw_user_meta_data]
    profiles,   \* the public.profiles table: a set of rows
    now,        \* NOW() of the transaction that runs next
    last,       \* the operation whose result the caller is receiving: its
                \* caller, arguments and result; Idle between operations
    url,        \* window.location of the browser tab: path and query parameters
    mounted,    \* the AuthCallback component is mounted
    status,     \* AuthCallback's status state
    message,    \* AuthCallback's message state
    runs,       \* the invocations of handleAuthCallback, one per effect run
    timers,     \* the setTimeout callbacks scheduled and not yet fired
    pushed,     \* the destinations router.push was called with
    provider,   \* the identity provider: the state of the landing's code, and
                \* whether the browser holds a stored session
    txs,        \* the concurrent database transactions calling a procedure
    stmt,       \* the last INSERT or UPDATE on auth.users: the new row, the
                \* role that ran it, the error its trigger raised, and the
                \* number of such statements so far
    auditLogs,  \* the public.audit_logs table: a set of rows
    auditSeq,   \* the number of audit_logs ids generated so far
    clientInstance, \* supabase-client.ts: the module's memoized client
    constructed,    \* the clients createClient() has built: for each, in
                    \* order, the caller that had it built
    holds,      \* which holder obtained which client
    authCtx,    \* AuthProvider: its state and the progress of its effect
    guard,      \* AuthGuard: its state, what it rendered, its pending effects
    routed      \* the paths AuthGuard called router.push with, in order

dbVars == <<authUsers, profiles, now, last>>
cbVars == <<url, mounted, status, message, runs, timers, pushed, provider>>
syncVars == <<txs, stmt>>
auditVars == <<auditLogs, auditSeq>>
clientVars == <<clientInstance, constructed, holds>>
uiVars == <<authCtx, guard, routed>>
vars == <<authUsers, profiles, now, last,
          url, mounted, status, message, runs, timers, pushed, provider,
          txs, stmt, auditLogs, auditSeq, clientInstance, constructed, holds,
          authCtx, guard, routed>>

\* No operation is in progress.
Idle == [op |-> "idle"]

\* A caller's database context: auth.uid() and auth.jwt() ->> 'role'.
Contexts == [uid : Users \cup {NULL}, role : Roles]

\* ------------------------------------------------- row-level security (SQL)

\* "read_own_profile" ... USING (auth.uid() = user_id)
read_own_profile(ctx, row) == SqlEq(ctx.uid, row.user_id)

\* "update_own_profile" ... USING (auth.uid() = user_id)
update_own_profile(ctx, row) == SqlEq(ctx.uid, row.user_id)

\* "insert_own_profile" ... WITH CHECK (auth.uid() = user_id)
insert_own_profile(ctx, row) == SqlEq(ctx.uid, row.user_id)

\* "service_role_full_access_profiles" ... FOR ALL USING (COALESCE(role,'') = 'service_role')
service_role_full_access_profiles(ctx, row) ==
    SqlEq(COALESCE(ctx.role, ""), "service_role")

\* The permissive policies of a command are OR-ed; a row is admitted when the
\* result is true (not when it is false or NULL).  A policy without WITH CHECK
\* uses its USING expression for new rows as well.
PolicyValue(cmd, ctx, row) ==
    CASE cmd = "SELECT" -> SqlOr(read_own_profile(ctx, row),
                                 service_role_full_access_profiles(ctx, row))
      [] cmd = "UPDATE" -> SqlOr(update_own_profile(ctx, row),
                                 service_role_full_access_profiles(ctx, row))
      [] cmd = "INSERT" -> SqlOr(insert_own_profile(ctx, row),
                                 service_role_full_access_profiles(ctx, row))
      [] OTHER          -> service_role_full_access_profiles(ctx, row)

RlsAdmits(cmd, ctx, row) == PolicyValue(cmd, ctx, row) = "t"

\* A variant of check_user_permission that tests the role claim before the
\* missing-subject rule.
check_user_permission_roleFirst(ctx, resource_user_id, required_permission) ==
    IF SqlEq(COALESCE(ctx.role, ""), "service_role") = "t" THEN TRUE
    ELSE IF ctx.uid = NULL THEN FALSE
    ELSE IF SqlEq(ctx.uid, resource_user_id) = "t" THEN TRUE
    ELSE FALSE

\* A variant of check_user_permission without the service-role rule.
check_user_permission_ownerOnly(ctx, resource_user_id, required_permission) ==
    IF ctx.uid = NULL THEN FALSE
    ELSE IF SqlEq(ctx.uid, resource_user_id) = "t" THEN TRUE
    ELSE FALSE

\* public.check_user_permission(resource_user_id, required_permission)
check_user_permission(ctx, resource_user_id, required_permission) ==
    IF ctx.uid = NULL THEN FALSE
    ELSE IF SqlEq(ctx.uid, resource_user_id) = "t" THEN TRUE
    ELSE IF SqlEq(COALESCE(ctx.role, ""), "service_role") = "t" THEN TRUE
    ELSE FALSE

\* --------------------------------------------------- stored procedures (SQL)

\* The rows of `table` whose key column equals `key` (WHERE col = key).
RowsWhere(table, key) == {r \in table : SqlEq(r.user_id, key) = "t"}

\* The result documents the procedures build with jsonb_build_object.
Failure(code) == [success |-> FALSE, code |-> code, profile |-> None]
Success(code, row) == [success |-> TRUE, code |-> code, profile |-> Some(row)]

\* public.get_or_create_profile(user_uuid) is SECURITY DEFINER, so no policy
\* applies.  Its first statement: SELECT * INTO profile_record ... WHERE
\* user_id = user_uuid; IF NOT FOUND ...
get_or_create_select(table, user_uuid) ==
    LET found == RowsWhere(table, user_uuid)
    IN  IF found # {}
        THEN [pc |-> "done", result |-> Success("FOUND", CHOOSE r \in found : TRUE)]
        ELSE [pc |-> "notfound", result |-> Failure("none")]

\* The INSERT of get_or_create_profile creating a blank profile when
\* auth.users has no record of the subject.
get_or_create_insert_blankRow(table, upstream, clock, user_uuid) ==
    LET src   == {au \in upstream : SqlEq(au.id, user_uuid) = "t"}
        blank == [user_id |-> user_uuid, email |-> "", full_name |-> "",
                  avatar_url |-> "", created_at |-> clock, updated_at |-> clock]
    IN  IF RowsWhere(table, user_uuid) # {}
        THEN [profiles |-> table, pc |-> "raised",
              result |-> Failure("unique_violation")]
        ELSE IF src = {}
        THEN [profiles |-> table \cup {blank}, pc |-> "done",
              result |-> Success("CREATED", blank)]
        ELSE LET au  == CHOOSE a \in src : TRUE
                 row == [user_id    |-> user_uuid,
                         email      |-> COALESCE(au.email, ""),
                         full_name  |-> COALESCE(au.raw_user_meta_data.full_name, ""),
                         avatar_url |-> COALESCE(au.raw_user_meta_data.avatar_url, ""),
                         created_at |-> clock,
                         updated_at |-> clock]
             IN  [profiles |-> table \cup {row}, pc |-> "done",
                  result |-> Success("CREATED", row)]

\* The INSERT of get_or_create_profile on a profiles table without the
\* primary key on user_id: a row inserted meanwhile does not stop it.
get_or_create_insert_noKey(table, upstream, clock, user_uuid) ==
    LET src == {au \in upstream : SqlEq(au.id, user_uuid) = "t"}
    IN  IF src = {}
        THEN [profiles |-> table, pc |-> "done",
              result |-> Failure("USER_NOT_FOUND")]
        ELSE LET au  == CHOOSE a \in src : TRUE
                 row == [user_id    |-> user_uuid,
                         email      |-> COALESCE(au.email, ""),
                         full_name  |-> COALESCE(au.raw_user_meta_data.full_name, ""),
                         avatar_url |-> COALESCE(au.raw_user_meta_data.avatar_url, ""),
                         created_at |-> clock,
                         updated_at |-> clock]
             IN  [profiles |-> table \cup {row}, pc |-> "done",
                  result |-> Success("CREATED", row)]

\* The second statement of get_or_create_profile, run after the SELECT found
\* nothing: INSERT INTO profiles ... SELECT ... FROM auth.users.  A row for
\* the id inserted meanwhile violates the primary key, and the function has
\* no handler for the exception.
get_or_create_insert(table, upstream, clock, user_uuid) ==
    LET src == {au \in upstream : SqlEq(au.id, user_uuid) = "t"}
    IN  IF src = {}
        THEN [profiles |-> table, pc |-> "done",
              result |-> Failure("USER_NOT_FOUND")]
        ELSE IF RowsWhere(table, user_uuid) # {}
        THEN [profiles |-> table, pc |-> "raised",
              result |-> Failure("unique_violation")]
        ELSE LET au  == CHOOSE a \in src : TRUE
                 row == [user_id    |-> user_uuid,
                         email      |-> COALESCE(au.email, ""),
                         full_name  |-> COALESCE(au.raw_user_meta_data.full_name, ""),
                         avatar_url |-> COALESCE(au.raw_user_meta_data.avatar_url, ""),
                         created_at |-> clock,
                         updated_at |-> clock]
             IN  [profiles |-> table \cup {row}, pc |-> "done",
                  result |-> Success("CREATED", row)]

\* public.handle_updated_at(): BEFORE UPDATE trigger on profiles.
handle_updated_at(new, clock) == [new EXCEPT !.updated_at = clock]

\* update_user_profile assigning profile_data's values as they are, without
\* COALESCE(..., <current value>).
update_user_profile_overwrite(table, clock, user_uuid, profile_data) ==
    LET hit == RowsWhere(table, user_uuid)
    IN  IF hit = {}
        THEN [profiles |-> table, result |-> Failure("NOT_FOUND")]
        ELSE LET old == CHOOSE r \in hit : TRUE
                 set == [old EXCEPT
                           !.email      = profile_data.email,
                           !.full_name  = profile_data.full_name,
                           !.avatar_url = profile_data.avatar_url,
                           !.updated_at = clock]
                 new == handle_updated_at(set, clock)
             IN  [profiles |-> (table \ {old}) \cup {new},
                  result   |-> Success("UPDATED", new)]

\* public.update_user_profile(user_uuid, profile_data): SECURITY DEFINER.
\* profile_data ->> 'k' is NULL when the key is absent or JSON null.
update_user_profile(table, clock, user_uuid, profile_data) ==
    LET hit == RowsWhere(table, user_uuid)
    IN  IF hit = {}
        THEN [profiles |-> table, result |-> Failure("NOT_FOUND")]
        ELSE LET old == CHOOSE r \in hit : TRUE
                 set == [old EXCEPT
                           !.email      = COALESCE(profile_data.email, old.email),
                           !.full_name  = COALESCE(profile_data.full_name, old.full_name),
                           !.avatar_url = COALESCE(profile_data.avatar_url, old.avatar_url),
                           !.updated_at = clock]
                 new == handle_updated_at(set, clock)
             IN  [profiles |-> (table \ {old}) \cup {new},
                  result   |-> Success("UPDATED", new)]

\* ------------------------------------------ direct table access under RLS

\* SELECT * FROM profiles, as the caller `ctx`.
TableSelect(table, ctx) == {r \in table : RlsAdmits("SELECT", ctx, r)}

\* INSERT INTO profiles (user_id, email, full_name, avatar_url) VALUES (...), as
\* `ctx`: the new row must pass the INSERT policies' WITH CHECK, then the
\* primary key and the foreign key to auth.users.
TableInsert(table, upstream, clock, ctx, vals) ==
    LET row == [user_id    |-> vals.user_id,
                email      |-> vals.email,
                full_name  |-> vals.full_name,
                avatar_url |-> vals.avatar_url,
                created_at |-> clock,
                updated_at |-> clock]
    IN  IF ~RlsAdmits("INSERT", ctx, row)
        THEN [profiles |-> table, result |-> "rls_violation"]
        ELSE IF RowsWhere(table, row.user_id) # {}
        THEN [profiles |-> table, result |-> "unique_violation"]
        ELSE IF \A au \in upstream : au.id # row.user_id
        THEN [profiles |-> table, result |-> "fk_violation"]
        ELSE [profiles |-> table \cup {row}, result |-> "inserted"]

\* UPDATE profiles SET user_id = .., email = .., full_name = .., avatar_url = ..
\* WHERE user_id = target, as `ctx`: only rows the SELECT and UPDATE policies
\* admit are touched; the BEFORE UPDATE trigger stamps updated_at; the new row
\* must pass the UPDATE policies again (USING doubles as WITH CHECK), then the
\* primary key and the foreign key.
TableUpdate(table, upstream, clock, ctx, target, vals) ==
    LET hit == {r \in RowsWhere(table, target) :
                   RlsAdmits("SELECT", ctx, r) /\ RlsAdmits("UPDATE", ctx, r)}
    IN  IF hit = {}
        THEN [profiles |-> table, result |-> "updated_0"]
        ELSE LET old == CHOOSE r \in hit : TRUE
                 set == [old EXCEPT !.user_id    = vals.user_id,
                                    !.email      = vals.email,
                                    !.full_name  = vals.full_name,
                                    !.avatar_url = vals.avatar_url]
                 new == handle_updated_at(set, clock)
             IN  IF ~RlsAdmits("UPDATE", ctx, new)
                 THEN [profiles |-> table, result |-> "rls_violation"]
                 ELSE IF RowsWhere(table \ {old}, new.user_id) # {}
                 THEN [profiles |-> table, result |-> "unique_violation"]
                 ELSE IF \A au \in upstream : au.id # new.user_id
                 THEN [profiles |-> table, result |-> "fk_violation"]
                 ELSE [profiles |-> (table \ {old}) \cup {new},
                       result   |-> "updated_1"]

\* DELETE FROM profiles WHERE user_id = target, as `ctx`: only the FOR ALL
\* policy covers DELETE.
TableDelete(table, ctx, target) ==
    LET hit == {r \in RowsWhere(table, target) :
                   RlsAdmits("SELECT", ctx, r) /\ RlsAdmits("DELETE", ctx, r)}
    IN  [profiles |-> table \ hit,
         result   |-> IF hit = {} THEN "deleted_0" ELSE "deleted_1"]

\* ------------------------------------------------------- audit log (SQL)

MaxAudit == 2

\* public.is_admin(): true for the service role, false otherwise (never NULL).
is_admin(ctx) == IF COALESCE(ctx.role, "") = "service_role" THEN "t" ELSE "f"

\* A read policy comparing with IS NOT DISTINCT FROM: a caller without a
\* subject matches the rows without an actor.
read_own_audit_logs_nullSafe(ctx, row) ==
    SqlOr(IF ctx.uid = row.user_id THEN "t" ELSE "f", is_admin(ctx))

\* "read_own_audit_logs" ... FOR SELECT USING (auth.uid() = user_id OR is_admin())
read_own_audit_logs(ctx, row) ==
    SqlOr(SqlEq(ctx.uid, row.user_id), is_admin(ctx))

\* "service_role_full_access_audit_logs" ... FOR ALL USING (COALESCE(role,'') = 'service_role')
service_role_full_access_audit_logs(ctx, row) ==
    SqlEq(COALESCE(ctx.role, ""), "service_role")

\* The permissive policies of audit_logs for a command, OR-ed.
AuditPolicyValue(cmd, ctx, row) ==
    CASE cmd = "SELECT" -> SqlOr(read_own_audit_logs(ctx, row),
                                 service_role_full_access_audit_logs(ctx, row))
      [] OTHER          -> service_role_full_access_audit_logs(ctx, row)

AuditAdmits(cmd, ctx, row) == AuditPolicyValue(cmd, ctx, row) = "t"

\* The arguments of log_audit_event; an argument left out is NULL.
AuditArgs ==
    { [p_action |-> "profile.update", p_table_name |-> "profiles",
       p_record_id |-> "u1", p_old_values |-> NULL, p_new_values |-> NULL],
      [p_action |-> NULL, p_table_name |-> NULL,
       p_record_id |-> NULL, p_old_values |-> NULL, p_new_values |-> NULL] }

\* The audit row an INSERT builds: id from gen_random_uuid(), created_at from
\* the column default.
AuditRow(seq, clock, user_id, args) ==
    [id         |-> seq + 1,
     user_id    |-> user_id,
     action     |-> args.p_action,
     table_name |-> args.p_table_name,
     record_id  |-> args.p_record_id,
     old_values |-> args.p_old_values,
     new_values |-> args.p_new_values,
     created_at |-> clock]

\* The constraints of audit_logs on a new row: action TEXT NOT NULL, and
\* user_id REFERENCES auth.users(id).
AuditConstraint(upstream, row) ==
    IF row.action = NULL THEN "not_null_violation"
    ELSE IF row.user_id # NULL /\ \A au \in upstream : au.id # row.user_id
    THEN "foreign_key_violation"
    ELSE "ok"

\* log_audit_event recording the actor its caller names in p_record_id.
log_audit_event_namedActor(table, upstream, seq, clock, ctx, args) ==
    LET row == AuditRow(seq, clock, args.p_record_id, args)
        chk == AuditConstraint(upstream, row)
    IN  IF chk # "ok"
        THEN [auditLogs |-> table, auditSeq |-> seq, raised |-> chk]
        ELSE [auditLogs |-> table \cup {row}, auditSeq |-> seq + 1,
              raised |-> NULL]

\* public.log_audit_event(p_action, p_table_name, p_record_id, p_old_values,
\* p_new_values), SECURITY DEFINER: one INSERT with user_id = auth.uid(), and
\* no exception handler, so a rejected INSERT raises to the caller.
log_audit_event(table, upstream, seq, clock, ctx, args) ==
    LET row == AuditRow(seq, clock, ctx.uid, args)
        chk == AuditConstraint(upstream, row)
    IN  IF chk # "ok"
        THEN [auditLogs |-> table, auditSeq |-> seq, raised |-> chk]
        ELSE [auditLogs |-> table \cup {row}, auditSeq |-> seq + 1,
              raised |-> NULL]

\* SELECT * FROM audit_logs, as the caller `ctx`.
AuditSelect(table, ctx) == {r \in table : AuditAdmits("SELECT", ctx, r)}

\* INSERT INTO audit_logs (user_id, action, ...) VALUES (...), as `ctx`: only
\* the FOR ALL policy covers INSERT, its USING doubling as WITH CHECK.
AuditInsert(table, upstream, seq, clock, ctx, user_id, args) ==
    LET row == AuditRow(seq, clock, user_id, args)
        chk == AuditConstraint(upstream, row)
    IN  IF ~AuditAdmits("INSERT", ctx, row)
        THEN [auditLogs |-> table, auditSeq |-> seq, result |-> "rls_violation"]
        ELSE IF chk # "ok"
        THEN [auditLogs |-> table, auditSeq |-> seq, result |-> chk]
        ELSE [auditLogs |-> table \cup {row}, auditSeq |-> seq + 1,
              result |-> "inserted"]

\* UPDATE audit_logs SET action = .., as `ctx`: only the rows the SELECT
\* policies and the FOR ALL policy admit are touched.
AuditUpdate(table, ctx, action) ==
    LET hit == {r \in table : AuditAdmits("SELECT", ctx, r)
                              /\ AuditAdmits("UPDATE", ctx, r)}
    IN  [auditLogs |-> (table \ hit) \cup
                         {[r EXCEPT !.action = action] : r \in hit},
         result    |-> Cardinality(hit)]

\* DELETE FROM audit_logs, as `ctx`.
AuditDelete(table, ctx) ==
    LET hit == {r \in table : AuditAdmits("SELECT", ctx, r)
                              /\ AuditAdmits("DELETE", ctx, r)}
    IN  [auditLogs |-> table \ hit, result |-> Cardinality(hit)]

\* audit_logs as the schema script leaves it.
AuditEmpty ==
    /\ auditLogs = {}
    /\ auditSeq = 0

\* ------------------------------------------- server-side helpers (TypeScript)

\* The identity records the provider can return from auth.getUser(), and a
\* locally stored session can carry.  user_metadata None is `undefined`.
ProviderUsers ==
    { [id |-> "u1", email |-> "a@x",   user_metadata |-> Some(FullMeta)],
      [id |-> "u1", email |-> "old@x", user_metadata |-> None],
      [id |-> "u2", email |-> "b@x",   user_metadata |-> Some(EmptyMeta)] }

NotCalled == [kind |-> "notcalled"]

\* Outcomes of `await supabase.auth.getUser()`: a rejection, or
\* { data: { user }, error }.
GetUserOutcomes ==
    {[kind |-> "throw"]}
    \cup [kind : {"return"}, user : {None} \cup {Some(u) : u \in ProviderUsers},
          error : {NULL, "AuthError"}]

\* Outcomes of `await supabase.auth.getSession()`: a rejection, or
\* { data: { session } } read from the request's cookies.
LocalSessions ==
    { [access_token |-> "tok", user |-> u] : u \in ProviderUsers }
    \cup { [access_token |-> "",
            user |-> [id |-> "u2", email |-> "b@x", user_metadata |-> Some(EmptyMeta)]] }
GetSessionOutcomes ==
    {[kind |-> "throw"]}
    \cup [kind : {"return"}, session : {None} \cup {Some(x) : x \in LocalSessions}]

\* An exception leaving a function body.
Thrown == Some([thrown |-> TRUE])

\* A variant of the try block that takes the identity from the locally read
\* session when there is one.
getServerSession_try_localSession(env) ==
    IF env.client = "throw1" THEN Thrown
    ELSE IF env.getUser.kind = "throw" THEN Thrown
    ELSE IF env.getUser.error # NULL \/ env.getUser.user = None THEN None
    ELSE IF env.getSession.kind = "throw" THEN Thrown
    ELSE LET session == env.getSession.session
             user    == IF session = None THEN Get(env.getUser.user)
                        ELSE Get(session).user
         IN  Some([user |-> [id            |-> user.id,
                             email         |-> user.email,
                             user_metadata |-> IF user.user_metadata = None
                                               THEN EmptyMeta
                                               ELSE Get(user.user_metadata)],
                   access_token |-> IF session = None THEN ""
                                    ELSE Get(session).access_token])

\* A variant of the try block that tests only `!user`, not `error` (a
\* getSession call the environment did not script finds no session).
getServerSession_try_ignoreError(env) ==
    IF env.client = "throw1" THEN Thrown
    ELSE IF env.getUser.kind = "throw" THEN Thrown
    ELSE IF env.getUser.user = None THEN None
    ELSE IF env.getSession.kind = "throw" THEN Thrown
    ELSE LET user    == Get(env.getUser.user)
             session == IF env.getSession.kind = "return"
                        THEN env.getSession.session ELSE None
         IN  Some([user |-> [id            |-> user.id,
                             email         |-> user.email,
                             user_metadata |-> IF user.user_metadata = None
                                               THEN EmptyMeta
                                               ELSE Get(user.user_metadata)],
                   access_token |-> IF session = None THEN ""
                                    ELSE Get(session).access_token])

\* The try block of getServerSession().  env.client = "throw1" is
\* createServerSupabase() throwing on this call.
getServerSession_try(env) ==
    IF env.client = "throw1" THEN Thrown
    ELSE IF env.getUser.kind = "throw" THEN Thrown
    ELSE IF env.getUser.error # NULL \/ env.getUser.user = None THEN None
    ELSE IF env.getSession.kind = "throw" THEN Thrown
    ELSE LET user    == Get(env.getUser.user)
             session == env.getSession.session
         IN  Some([user |-> [id            |-> user.id,
                             email         |-> user.email,
                             user_metadata |-> IF user.user_metadata = None
                                               THEN EmptyMeta
                                               ELSE Get(user.user_metadata)],
                   access_token |-> IF session = None THEN ""
                                    ELSE Get(session).access_token])

\* getServerSession(): AuthSession | null; the catch block returns null.
getServerSession(env) ==
    LET r == getServerSession_try(env)
    IN  IF r = Thrown THEN None ELSE r

\* authenticateUser(): UserProfile | null, with the table after the
\* get_or_create_profile RPC.  env.client = "throw2" is createServerSupabase()
\* throwing on the second call; env.rpc is the transport outcome of the RPC,
\* or "raced": the RPC reaches the database while another session's call for
\* the same subject is running, and that call's INSERT commits between the
\* SELECT and the INSERT of this one.  An exception the function raises
\* reaches the caller as `error`.
authenticateUser(env, table, upstream, clock) ==
    LET session == getServerSession(env)
    IN  IF session = None THEN [profiles |-> table, user |-> None]
        ELSE IF env.client = "throw2" THEN [profiles |-> table, user |-> None]
        ELSE IF env.rpc = "throw" THEN [profiles |-> table, user |-> None]
        ELSE IF env.rpc = "error" THEN [profiles |-> table, user |-> None]
        ELSE LET id    == Get(session).user.id
                 s     == get_or_create_select(table, id)
                 other == IF env.rpc = "raced" /\ s.pc # "done"
                          THEN get_or_create_insert(table, upstream, clock,
                                                    id).profiles
                          ELSE table
                 i     == get_or_create_insert(other, upstream, clock, id)
                 call  == IF s.pc = "done"
                          THEN [profiles |-> table, result |-> s.result,
                                error |-> FALSE]
                          ELSE [profiles |-> i.profiles, result |-> i.result,
                                error |-> (i.pc = "raised")]
                 profileResult == call.result
             IN  IF call.error
                 THEN [profiles |-> call.profiles, user |-> None]
                 ELSE IF ~profileResult.success
                 THEN [profiles |-> call.profiles, user |-> None]
                 ELSE IF profileResult.profile = None
                 THEN [profiles |-> call.profiles, user |-> None]
                 ELSE [profiles |-> call.profiles,
                       user |-> Some([Get(profileResult.profile) EXCEPT
                           !.email      = Get(session).user.email,
                           !.full_name  = Get(session).user.user_metadata.full_name,
                           !.avatar_url = Get(session).user.user_metadata.avatar_url])]

\* A variant of checkUserPermission that only tests that a user is signed in.
checkUserPermission_anyUser(env, table, upstream, clock, userId, permission) ==
    LET auth == authenticateUser(env, table, upstream, clock)
    IN  IF auth.user = None
        THEN [profiles |-> auth.profiles, authorized |-> FALSE, user |-> None]
        ELSE [profiles |-> auth.profiles, authorized |-> TRUE, user |-> auth.user]

\* checkUserPermission(userId, permission): { authorized, user? }.
checkUserPermission(env, table, upstream, clock, userId, permission) ==
    LET auth == authenticateUser(env, table, upstream, clock)
    IN  IF auth.user = None \/ Get(auth.user).user_id # userId
        THEN [profiles |-> auth.profiles, authorized |-> FALSE, user |-> None]
        ELSE [profiles |-> auth.profiles, authorized |-> TRUE, user |-> auth.user]

\* ------------------------------------------------------------ environments

\* What one server request meets: whether createServerSupabase() throws (on
\* the first or the second call), the outcome of each provider call the code
\* reaches, the transport outcome of the RPC, and the role claim of the
\* request's token.  A call the code does not reach is "notcalled".
ServerEnvs ==
    [client     : {"ok", "throw1", "throw2"},
     getUser    : GetUserOutcomes \cup {NotCalled},
     getSession : GetSessionOutcomes \cup {NotCalled},
     rpc        : {"ok", "raced", "error", "throw", "notcalled"},
     role       : Roles]

\* getUser() returned a user and no error.
Verified(env) ==
    /\ env.getUser.kind = "return"
    /\ env.getUser.error = NULL
    /\ env.getUser.user # None

\* The calls marked "notcalled" are exactly those the code does not reach;
\* withRpc says whether the entry point goes on to the RPC.
Reaches(env, withRpc) ==
    LET resolved == Verified(env) /\ env.getSession.kind = "return"
    IN  /\ (env.getUser = NotCalled) <=> (env.client = "throw1")
        /\ (env.getSession = NotCalled) <=> ~Verified(env)
        /\ (env.client = "throw2") => (withRpc /\ resolved)
        /\ (env.rpc = "notcalled") <=> ~(withRpc /\ resolved /\ env.client = "ok")

\* The database context of the request's RPCs: the token the cookies carry.
RequestCtx(env) ==
    [uid  |-> IF Verified(env) THEN Get(env.getUser.user).id ELSE NULL,
     role |-> env.role]

\* The rows auth.users can hold for each subject.
UpstreamRow(u) ==
    IF u = "u1"
    THEN [id |-> "u1", email |-> "a@x", raw_user_meta_data |-> FullMeta]
    ELSE [id |-> u, email |-> "b@x", raw_user_meta_data |-> EmptyMeta]

\* auth.users.email is nullable: an identity registered without an email
\* address (get_or_create_profile reads it through COALESCE(au.email, '')).
UpstreamRowNoEmail(u) ==
    [id |-> u, email |-> NULL, raw_user_meta_data |-> EmptyMeta]

\* Arguments callers pass to the storage operations.
ProfileData ==
    { [email |-> NULL,    full_name |-> NULL,  avatar_url |-> NULL],
      [email |-> "new@x", full_name |-> NULL,  avatar_url |-> NULL],
      [email |-> NULL,    full_name |-> "Bob", avatar_url |-> "img"] }

RowValues ==
    [user_id : Users, email : {"w@x"}, full_name : {"W"}, avatar_url : {NULL}]

\* ------------------------------------------- OAuth callback (AuthCallback)

\* The effect runs of one mounted AuthCallback the model follows.
MaxRuns == 2
RunIds == 1..MaxRuns

\* AuthCallback's default props.
successRedirect == "/"
errorRedirect == "/login"
successDelay == 1500
errorDelay == 3000

\* Strings are sequences of characters; a fixed text is one token, written
\* here in English: the initial message, the message of success, the message
\* of the error thrown when no session was obtained, and the message shown
\* for an error that has none.
ProcessingMsg == <<"processing authentication...">>
SuccessMsg == <<"authenticated, redirecting...">>
NoSessionMsg == <<"no session obtained">>
RetryMsg == <<"authentication failed, please retry">>
URIErrorMsg == <<"URI malformed">>

\* Percent-encoding, over the hexadecimal digits the model's URLs use.
HexDigits == {"0", "2", "5"}
PercentByte(h, l) ==
    CASE <<h, l>> = <<"2", "0">> -> " "
      [] <<h, l>> = <<"2", "5">> -> "%"
      [] <<h, l>> = <<"2", "2">> -> "\""
      [] <<h, l>> = <<"5", "0">> -> "P"
      [] <<h, l>> = <<"5", "2">> -> "R"
      [] <<h, l>> = <<"5", "5">> -> "U"
      [] <<h, l>> = <<"0", "0">> -> "\\x00"
      [] <<h, l>> = <<"0", "2">> -> "\\x02"
      [] <<h, l>> = <<"0", "5">> -> "\\x05"

\* s[i] starts a well-formed escape %hh.
EscapeAt(s, i) ==
    /\ s[i] = "%"
    /\ i + 2 <= Len(s)
    /\ s[i + 1] \in HexDigits
    /\ s[i + 2] \in HexDigits

\* The percent-decoding URLSearchParams applies to a value: every well-formed
\* escape is replaced by its character, anything else is kept.
RECURSIVE PercentDecode(_)
PercentDecode(s) ==
    IF s = <<>> THEN <<>>
    ELSE IF EscapeAt(s, 1)
    THEN <<PercentByte(s[2], s[3])>> \o PercentDecode(SubSeq(s, 4, Len(s)))
    ELSE <<s[1]>> \o PercentDecode(Tail(s))

\* decodeURIComponent(s): throws URIError at a "%" that starts no escape.
decodeURIComponent(s) ==
    IF \E i \in 1..Len(s) : s[i] = "%" /\ ~EscapeAt(s, i)
    THEN [ok |-> FALSE, value |-> URIErrorMsg]
    ELSE [ok |-> TRUE, value |-> PercentDecode(s)]

\* The URLs the provider's redirect lands on: each query parameter is absent
\* or carries a percent-encoded value.
Landings ==
    [path  : {"/auth/callback"},
     code  : {None, Some(<<>>), Some(<<"c">>)},
     error : {None, Some(<<>>), Some(<<"e">>)},
     error_description :
        {None, Some(<<>>),
         Some(<<"U", "%", "2", "0", "d">>),
         Some(<<"5", "%", "2", "5">>),
         Some(<<"%", "2", "5", "2", "0">>)}]

\* The URL of a page without query parameters.
Page(path) ==
    [path |-> path, code |-> None, error |-> None, error_description |-> None]

\* currentUrl.searchParams.get(name): null, or the decoded value.
SearchParam(href, name) ==
    IF href[name] = None THEN None ELSE Some(PercentDecode(Get(href[name])))

\* JavaScript truthiness of a string | null, and the || operator on them.
Truthy(o) == o # None /\ Get(o) # <<>>
OrElse(a, b) == IF Truthy(a) THEN a ELSE b

\* What supabase.auth.getSession() can answer in the browser: the stored
\* session or null, an error, or a rejection.
ProviderMessages == {<<"AuthSessionError">>, <<>>}
BrowserSessionOutcomes(stored) ==
    {[kind |-> "return", error |-> None,
      session |-> IF stored THEN Some("session") ELSE None]}
    \cup {[kind |-> "return", error |-> Some(m), session |-> None] :
            m \in ProviderMessages}
    \cup {[kind |-> "reject", error |-> Some(m), session |-> None] :
            m \in ProviderMessages}

\* How the try block of handleAuthCallback ends: with an error thrown, or at
\* the test of the session it obtained.
Threw(msg) == [thrown |-> TRUE, error |-> msg, session |-> None]
Obtained(session) == [thrown |-> FALSE, error |-> <<>>, session |-> session]

\* The fallback lookup discarding the session it is given.
FallbackLookup_discard(out) ==
    IF out.kind = "reject" THEN Threw(Get(out.error))
    ELSE Obtained(None)

\* const { data } = await supabase.auth.getSession() in the catch of the
\* failed exchange: the error it returns is not read.
FallbackLookup(out) ==
    IF out.kind = "reject" THEN Threw(Get(out.error))
    ELSE Obtained(out.session)

\* const { data, error } = await supabase.auth.getSession(); if (error)
\* throw error, on the path without a code.
PlainLookup(out) ==
    IF out.kind = "reject" THEN Threw(Get(out.error))
    ELSE IF out.error # None THEN Threw(Get(out.error))
    ELSE Obtained(out.session)

\* if (oauthError) throw new Error(decodeURIComponent(oauthError))
OAuthErrorThrown(oauthError) ==
    Threw(decodeURIComponent(Get(oauthError)).value)

\* The catch block scheduling its redirect after successDelay.
Catch_successDelay(msg) ==
    [status    |-> "error",
     message   |-> IF msg = <<>> THEN RetryMsg ELSE msg,
     redirects |-> <<[dest |-> errorRedirect, delay |-> successDelay]>>]

\* The catch block: status error, the error's message, the error redirect.
Catch(msg) ==
    [status    |-> "error",
     message   |-> IF msg = <<>> THEN RetryMsg ELSE msg,
     redirects |-> <<[dest |-> errorRedirect, delay |-> errorDelay]>>]

\* The end of the try block without the test of the session.
Conclude_noSessionTest(body) ==
    IF body.thrown THEN Catch(body.error)
    ELSE [status    |-> "success",
          message   |-> SuccessMsg,
          redirects |-> <<[dest |-> successRedirect, delay |-> successDelay]>>]

\* if (session) { ... } else { throw new Error(<no session obtained>) }
Conclude(body) ==
    IF body.thrown THEN Catch(body.error)
    ELSE IF body.session # None
    THEN [status    |-> "success",
          message   |-> SuccessMsg,
          redirects |-> <<[dest |-> successRedirect, delay |-> successDelay]>>]
    ELSE Catch(NoSessionMsg)

\* A run of handleAuthCallback that has not started.
IdleRun ==
    [pc |-> "idle", href |-> Page(""), alone |-> FALSE, codeAtStart |-> "none",
     exchange |-> "notcalled", lookup |-> "notcalled",
     outcome |-> "none", message |-> <<>>, scheduled |-> <<>>]

\* What a getSession() answer is, for the run's record.
LookupKind(out) ==
    IF out.kind = "reject" THEN "reject"
    ELSE IF out.error # None THEN "error"
    ELSE IF out.session # None THEN "session"
    ELSE "null"

\* The browser is at the provider's consent page; AuthCallback's state is
\* as useState initialises it.
PageLoaded ==
    /\ url = Page("/authorize")
    /\ mounted = FALSE
    /\ status = "loading"
    /\ message = ProcessingMsg
    /\ runs = [r \in RunIds |-> IdleRun]
    /\ timers = {}
    /\ pushed = {}
    /\ provider = [code |-> "none", stored |-> FALSE]

\* --------------------------- concurrent transactions and the upstream sync

\* The concurrent transactions the model follows.
MaxTx == 2
TxIds == 1..MaxTx

\* The INSERT and UPDATE statements on auth.users the model follows.
MaxStmts == 2

\* The subject whose auth.users row is inserted, changed and deleted.
SyncSubject == "u2"

\* The values an UPDATE OF email, raw_user_meta_data gives an auth.users row.
UpstreamChanges ==
    { [email |-> "n@x",
       raw_user_meta_data |-> [full_name |-> "", avatar_url |-> NULL]],
      [email |-> NULL,
       raw_user_meta_data |-> [full_name |-> "Zed", avatar_url |-> "z.png"]] }

\* The argument the concurrent callers pass to update_user_profile.
SyncProfileData ==
    { [email |-> "new@x", full_name |-> NULL, avatar_url |-> NULL] }

\* A transaction that has not begun.
IdleTx ==
    [pc |-> "idle", kind |-> "none", user_uuid |-> NULL,
     profile_data |-> [email |-> NULL, full_name |-> NULL, avatar_url |-> NULL],
     start |-> 0, result |-> Failure("none")]

\* The role whose statement on auth.users fires the trigger.  The function
\* is not SECURITY DEFINER, so its statements on public.profiles run with that
\* role's rights; the migrations neither name the role nor grant it anything:
\*   "owner"     the owner of public.profiles or a superuser: row-level
\*               security does not apply;
\*   "granted"   a role holding INSERT and UPDATE on public.profiles: the
\*               policies apply, and the connection carries no JWT;
\*   "ungranted" a role without rights on public.profiles.
Writers == {"owner", "granted", "ungranted"}

\* auth.uid() and the role claim of a connection without JWT.
NoJwt == [uid |-> NULL, role |-> NULL]

\* public.sync_profile_from_auth_users(): AFTER INSERT OR UPDATE OF email,
\* raw_user_meta_data ON auth.users FOR EACH ROW, fired by a statement of
\* `writer` in a transaction whose NOW() is clock.  The table after the
\* trigger ran, and the error it raised (which aborts the statement on
\* auth.users) or NULL.  The INSERT's new row must pass the INSERT policies
\* before the conflict with an existing row is looked at; the UPDATE touches
\* the rows the SELECT and UPDATE policies admit and fires handle_updated_at
\* on each.
sync_profile_from_auth_users(table, clock, tg_op, new, writer) ==
    IF writer = "ungranted"
    THEN [profiles |-> table, raised |-> "insufficient_privilege"]
    ELSE IF tg_op = "INSERT"
    THEN LET row == [user_id    |-> new.id,
                     email      |-> new.email,
                     full_name  |-> COALESCE(new.raw_user_meta_data.full_name, ""),
                     avatar_url |-> COALESCE(new.raw_user_meta_data.avatar_url, ""),
                     created_at |-> clock,
                     updated_at |-> clock]
         IN  IF writer # "owner" /\ ~RlsAdmits("INSERT", NoJwt, row)
             THEN [profiles |-> table, raised |-> "rls_violation"]
             ELSE IF RowsWhere(table, new.id) # {}
             THEN [profiles |-> table, raised |-> NULL]
             ELSE [profiles |-> table \cup {row}, raised |-> NULL]
    ELSE LET hit == {r \in RowsWhere(table, new.id) :
                        \/ writer = "owner"
                        \/ /\ RlsAdmits("SELECT", NoJwt, r)
                           /\ RlsAdmits("UPDATE", NoJwt, r)}
             set == { handle_updated_at(
                        [old EXCEPT
                           !.email      = new.email,
                           !.full_name  = COALESCE(new.raw_user_meta_data.full_name,
                                                   old.full_name),
                           !.avatar_url = COALESCE(new.raw_user_meta_data.avatar_url,
                                                   old.avatar_url),
                           !.updated_at = clock], clock) : old \in hit }
         IN  IF writer # "owner" /\ \E r \in set : ~RlsAdmits("UPDATE", NoJwt, r)
             THEN [profiles |-> table, raised |-> "rls_violation"]
             ELSE [profiles |-> (table \ hit) \cup set, raised |-> NULL]

\* DELETE FROM auth.users WHERE id = ...: profiles.user_id REFERENCES
\* auth.users(id) ON DELETE CASCADE.  Without the cascade:
auth_users_delete_noCascade(table, upstream, id) ==
    [authUsers |-> {au \in upstream : au.id # id}, profiles |-> table]

auth_users_delete(table, upstream, id) ==
    [authUsers |-> {au \in upstream : au.id # id},
     profiles  |-> {r \in table : r.user_id # id}]

\* No statement has been run on auth.users.
NoStmt ==
    [tg_op |-> "NONE",
     new |-> [id |-> NULL, email |-> NULL,
              raw_user_meta_data |-> [full_name |-> NULL, avatar_url |-> NULL]],
     writer |-> "none", raised |-> NULL, no |-> 0]

\* No transaction has begun and no statement has been run on auth.users.
SyncIdle ==
    /\ txs = [t \in TxIds |-> IdleTx]
    /\ stmt = NoStmt

\* ------------------------------------- browser client (supabase-client.ts)

\* createClient(), called by `caller`: createBrowserClient(url, anonKey,
\* options) builds a client; the n-th client built is client n.
createClient(built, caller) ==
    [client |-> Len(built) + 1, constructed |-> Append(built, caller)]

\* getSupabaseClient(): the module's clientInstance is built on the first
\* call and returned by every call.
getSupabaseClient(instance, built) ==
    IF instance = None
    THEN LET c == createClient(built, "getSupabaseClient")
         IN  [clientInstance |-> Some(c.client),
              constructed    |-> c.constructed,
              returns        |-> c.client]
    ELSE [clientInstance |-> instance,
          constructed    |-> built,
          returns        |-> Get(instance)]

\* `holder` keeps `client`.
Holds(holder, client) == [holder |-> holder, client |-> client]

\* ------------------------------------------ AuthProvider (auth-context)

MaxEvents == 2

\* The identity the provider verifies and the session it stores for it.
UiUser == [id |-> "u1"]
UiSession == [user |-> UiUser]

\* Outcomes of `await supabase.auth.getUser()` in the browser: a verified
\* user, an error returned, or a rejection.
BrowserUserOutcomes ==
    {[kind |-> "return", error |-> FALSE, user |-> Some(UiUser)],
     [kind |-> "return", error |-> TRUE,  user |-> None],
     [kind |-> "reject", error |-> TRUE,  user |-> None]}

\* AuthProvider before it mounts: useState(null), useState(null),
\* useState(true); getInitialUser has not been called.
IdleAuth ==
    [mounted      |-> "no",
     user         |-> None,
     session      |-> None,
     loading      |-> TRUE,
     pc           |-> "idle",
     read         |-> [kind |-> "none", session |-> None],
     subscribed   |-> FALSE,
     verifyFailed |-> FALSE,
     delivered    |-> FALSE,
     events       |-> 0]

\* A state setter of a component that is no longer mounted changes nothing.
SetState(a, b) == IF a.mounted = "yes" THEN b ELSE a

\* getInitialUser without its finally block.
InitialUserFinally_skip(a) == a

\* finally { setLoading(false) }
InitialUserFinally(a) == SetState(a, [a EXCEPT !.loading = FALSE])

\* getInitialUser from the answer of getUser to its next await or its end:
\* on an error or a rejection setUser(null), setSession(null) and the finally
\* block; otherwise setUser(user) and the call of getSession.
AfterGetUser(a, out) ==
    IF out.kind = "return" /\ ~out.error
    THEN [SetState(a, [a EXCEPT !.user = out.user]) EXCEPT !.pc = "getSession"]
    ELSE [InitialUserFinally(SetState(a, [a EXCEPT !.user = None,
                                                   !.session = None]))
            EXCEPT !.pc = "done", !.verifyFailed = TRUE]

\* getInitialUser from the answer of getSession to its end: setSession(session),
\* or the catch block on a rejection, and the finally block.
AfterGetSession(a, out) ==
    IF out.kind = "return"
    THEN [InitialUserFinally(SetState(a, [a EXCEPT !.session = out.session]))
            EXCEPT !.pc = "done"]
    ELSE [InitialUserFinally(SetState(a, [a EXCEPT !.user = None,
                                                   !.session = None]))
            EXCEPT !.pc = "done"]

\* The onAuthStateChange callback: setSession(session),
\* setUser(session?.user ?? null), setLoading(false).
AuthStateChanged(a, session) ==
    [SetState(a, [a EXCEPT !.session = session,
                           !.user = IF session = None THEN None
                                    ELSE Some(Get(session).user),
                           !.loading = FALSE])
       EXCEPT !.delivered = a.delivered \/ (a.verifyFailed /\ session # None)]

\* ----------------------------------------------------------- AuthGuard

redirectTo == "/login"

\* What AuthGuard returns: the loading component, the redirecting component,
\* or the protected children.
GuardRender(isHydrated, loading, user) ==
    IF ~isHydrated \/ loading THEN "loading"
    ELSE IF user = None THEN "redirecting"
    ELSE "children"

\* The redirect effect without the test of loading.
RedirectEffect_noLoadingTest(user, loading, isHydrated) ==
    user = None /\ isHydrated

\* if (!loading && !user && isHydrated) router.push(redirectTo)
RedirectEffect(user, loading, isHydrated) ==
    ~loading /\ user = None /\ isHydrated

\* The values a render of AuthGuard closes over.
Closure(a, isHydrated) ==
    [user |-> a.user, loading |-> a.loading, isHydrated |-> isHydrated]

IdleGuard ==
    [mounted    |-> "no",
     isHydrated |-> FALSE,
     view       |-> "none",
     seen       |-> Closure(IdleAuth, FALSE),
     hydrate    |-> FALSE,
     redirect   |-> FALSE,
     newUser    |-> FALSE]

\* AuthGuard after a callback of AuthProvider called its state setters and
\* left the hook state `a`: the updates are queued, nothing is rendered.
\* When the callback called setUser with a user, `user` is another object
\* than the one rendered.
Notified(g, a, calledSetUser) ==
    IF g.mounted = "yes" /\ a.mounted = "yes" /\ calledSetUser
    THEN [g EXCEPT !.newUser = (a.user # None)]
    ELSE g

\* AuthGuard renders again with the context value `a` and its own state.
\* The redirect effect is scheduled when one of its dependencies changed.
Rerender(g, a) ==
    IF g.mounted # "yes" THEN g
    ELSE LET c == Closure(a, g.isHydrated)
         IN  [g EXCEPT !.view = GuardRender(g.isHydrated, a.loading, a.user),
                       !.seen = c,
                       !.redirect = g.redirect \/ c # g.seen
                                    \/ (g.newUser /\ a.user # None),
                       !.newUser = FALSE]

\* Effects of the last commit are still to run.
EffectsPending == guard.hydrate \/ guard.redirect \/ authCtx.pc = "effect"

\* State updates are queued that AuthGuard has not rendered.
RenderPending ==
    /\ guard.mounted = "yes"
    /\ Closure(authCtx, guard.isHydrated) # guard.seen \/ guard.newUser

\* supabase-client.ts is loaded: `let clientInstance = null`; no client has
\* been built.
ClientUnset ==
    /\ clientInstance = None
    /\ constructed = <<>>
    /\ holds = {}

\* AuthProvider and AuthGuard are not mounted yet.
UiUnmounted ==
    /\ authCtx = IdleAuth
    /\ guard = IdleGuard
    /\ routed = <<>>

-----------------------------------------------------------------------------

\* The schema scripts have run: profiles is empty; auth.users holds the
\* identities registered before the sync trigger existed.
Init ==
    /\ authUsers \in { {UpstreamRow(u) : u \in Users}, {UpstreamRow("u1")},
                       {UpstreamRow("u1"), UpstreamRowNoEmail("u2")} }
    /\ profiles = {}
    /\ now = 0
    /\ last = Idle
    /\ PageLoaded
    /\ SyncIdle
    /\ AuditEmpty
    /\ ClientUnset
    /\ UiUnmounted

\* Time passes between transactions.
Tick ==
    /\ last = Idle
    /\ now < MaxClock
    /\ now' = now + 1
    /\ UNCHANGED <<auditVars, clientVars, uiVars, syncVars, cbVars, authUsers, profiles, last>>

\* ---- server requests

GetServerSession ==
    /\ last = Idle
    /\ \E env \in ServerEnvs :
        /\ Reaches(env, FALSE)
        /\ last' = [op |-> "getServerSession", env |-> env,
                    session |-> getServerSession(env)]
        /\ UNCHANGED <<auditVars, clientVars, uiVars, syncVars, cbVars, authUsers, profiles, now>>

AuthenticateUser ==
    /\ last = Idle
    /\ \E env \in ServerEnvs :
        /\ Reaches(env, TRUE)
        /\ LET r == authenticateUser(env, profiles, authUsers, now)
           IN  /\ profiles' = r.profiles
               /\ last' = [op |-> "authenticateUser", env |-> env,
                           session |-> getServerSession(env), user |-> r.user]
        /\ UNCHANGED <<auditVars, clientVars, uiVars, syncVars, cbVars, authUsers, now>>

CheckUserPermission ==
    /\ last = Idle
    /\ \E env \in ServerEnvs, userId \in Users, permission \in Permissions :
        /\ Reaches(env, TRUE)
        /\ LET r == checkUserPermission(env, profiles, authUsers, now,
                                        userId, permission)
           IN  /\ profiles' = r.profiles
               /\ last' = [op |-> "checkUserPermission", env |-> env,
                           userId |-> userId, permission |-> permission,
                           session |-> getServerSession(env),
                           authorized |-> r.authorized, user |-> r.user]
        /\ UNCHANGED <<auditVars, clientVars, uiVars, syncVars, cbVars, authUsers, now>>

\* ---- storage operations issued by a caller with context ctx

RpcCheckUserPermission ==
    /\ last = Idle
    /\ \E ctx \in Contexts, rid \in Users \cup {NULL}, perm \in Permissions :
        /\ last' = [op |-> "check_user_permission", ctx |-> ctx,
                    resource_user_id |-> rid, required_permission |-> perm,
                    result |-> check_user_permission(ctx, rid, perm)]
        /\ UNCHANGED <<auditVars, clientVars, uiVars, syncVars, cbVars, authUsers, profiles, now>>

\* The call's SELECT has found no row and its INSERT has not run yet.
NotFoundYet == "get_or_create_profile: not found"

\* A caller calls get_or_create_profile and the function runs its SELECT: it
\* returns the row it finds, or goes on to its INSERT.
RpcGetOrCreateProfile ==
    /\ last = Idle
    /\ \E ctx \in Contexts, user_uuid \in Users :
        /\ LET r == get_or_create_select(profiles, user_uuid)
           IN  last' = [op |-> IF r.pc = "done" THEN "get_or_create_profile"
                              ELSE NotFoundYet,
                        ctx |-> ctx, user_uuid |-> user_uuid,
                        result |-> r.result]
        /\ UNCHANGED <<auditVars, clientVars, uiVars, syncVars, cbVars, authUsers, profiles, now>>

\* Between the SELECT and the INSERT of the call, another session's call for
\* the same subject, whose SELECT found nothing either, commits its INSERT.
ConcurrentInsert ==
    /\ last.op = NotFoundYet
    /\ LET r == get_or_create_insert(profiles, authUsers, now, last.user_uuid)
       IN  /\ r.result.code = "CREATED"
           /\ profiles' = r.profiles
    /\ UNCHANGED <<auditVars, clientVars, uiVars, syncVars, cbVars, authUsers, now, last>>

\* The call runs its INSERT and returns, or the INSERT raises and the caller
\* receives the error.
RpcGetOrCreateInsert ==
    /\ last.op = NotFoundYet
    /\ LET r == get_or_create_insert(profiles, authUsers, now, last.user_uuid)
       IN  /\ profiles' = r.profiles
           /\ last' = [last EXCEPT !.op = "get_or_create_profile",
                                   !.result = r.result]
    /\ UNCHANGED <<auditVars, clientVars, uiVars, syncVars, cbVars, authUsers, now>>

RpcUpdateUserProfile ==
    /\ last = Idle
    /\ \E ctx \in Contexts, user_uuid \in Users, data \in ProfileData :
        /\ LET r == update_user_profile(profiles, now, user_uuid, data)
           IN  /\ profiles' = r.profiles
               /\ last' = [op |-> "update_user_profile", ctx |-> ctx,
                           user_uuid |-> user_uuid, profile_data |-> data,
                           result |-> r.result]
        /\ UNCHANGED <<auditVars, clientVars, uiVars, syncVars, cbVars, authUsers, now>>

SelectProfiles ==
    /\ last = Idle
    /\ \E ctx \in Contexts :
        /\ last' = [op |-> "select", ctx |-> ctx,
                    result |-> TableSelect(profiles, ctx)]
        /\ UNCHANGED <<auditVars, clientVars, uiVars, syncVars, cbVars, authUsers, profiles, now>>

InsertProfile ==
    /\ last = Idle
    /\ \E ctx \in Contexts, vals \in RowValues :
        /\ LET r == TableInsert(profiles, authUsers, now, ctx, vals)
           IN  /\ profiles' = r.profiles
               /\ last' = [op |-> "insert", ctx |-> ctx, vals |-> vals,
                           result |-> r.result]
        /\ UNCHANGED <<auditVars, clientVars, uiVars, syncVars, cbVars, authUsers, now>>

UpdateProfile ==
    /\ last = Idle
    /\ \E ctx \in Contexts, target \in Users, vals \in RowValues :
        /\ LET r == TableUpdate(profiles, authUsers, now, ctx, target, vals)
           IN  /\ profiles' = r.profiles
               /\ last' = [op |-> "update", ctx |-> ctx, target |-> target,
                           vals |-> vals, result |-> r.result]
        /\ UNCHANGED <<auditVars, clientVars, uiVars, syncVars, cbVars, authUsers, now>>

DeleteProfile ==
    /\ last = Idle
    /\ \E ctx \in Contexts, target \in Users :
        /\ LET r == TableDelete(profiles, ctx, target)
           IN  /\ profiles' = r.profiles
               /\ last' = [op |-> "delete", ctx |-> ctx, target |-> target,
                           result |-> r.result]
        /\ UNCHANGED <<auditVars, clientVars, uiVars, syncVars, cbVars, authUsers, now>>

\* The caller has taken the result; the next operation can begin.
Return ==
    /\ last # Idle
    /\ last.op # NotFoundYet
    /\ last' = Idle
    /\ UNCHANGED <<auditVars, clientVars, uiVars, syncVars, cbVars, authUsers, profiles, now>>

\* Server requests and permission checks.
Next ==
    \/ Tick
    \/ Return
    \/ GetServerSession
    \/ AuthenticateUser
    \/ CheckUserPermission
    \/ RpcCheckUserPermission

Spec == Init /\ [][Next]_vars

\* Storage operations issued directly by callers.
NextStorage ==
    \/ Tick
    \/ Return
    \/ RpcCheckUserPermission
    \/ RpcGetOrCreateProfile
    \/ ConcurrentInsert
    \/ RpcGetOrCreateInsert
    \/ RpcUpdateUserProfile
    \/ SelectProfiles
    \/ InsertProfile
    \/ UpdateProfile
    \/ DeleteProfile

SpecStorage == Init /\ [][NextStorage]_vars

\* ---- the OAuth callback page

\* The provider redirects the browser to the callback URL and AuthCallback
\* mounts.  The landing's code, when it has one, is fresh or was consumed
\* before; the browser may hold a session already.
Land ==
    /\ ~mounted
    /\ url = Page("/authorize")
    /\ \E landing \in Landings, stored \in BOOLEAN :
        \E code \in (IF Truthy(landing.code) THEN {"fresh", "consumed"}
                     ELSE {"none"}) :
            /\ url' = landing
            /\ provider' = [code |-> code, stored |-> stored]
    /\ mounted' = TRUE
    /\ UNCHANGED <<auditVars, clientVars, uiVars, syncVars, dbVars, status, message, runs, timers, pushed>>

\* The run reached the end of handleAuthCallback with result res:
\* setStatus, setMessage (which a component no longer mounted ignores) and
\* setTimeout.
Settle(r, run, res) ==
    /\ runs' = [runs EXCEPT ![r] = [run EXCEPT !.pc = "done",
                                               !.outcome = res.status,
                                               !.message = res.message,
                                               !.scheduled = res.redirects]]
    /\ status' = IF mounted THEN res.status ELSE status
    /\ message' = IF mounted THEN res.message ELSE message
    /\ timers' = timers \cup {[run |-> r, dest |-> res.redirects[i].dest,
                               delay |-> res.redirects[i].delay] :
                                i \in DOMAIN res.redirects}

\* The effect runs handleAuthCallback up to its first await: it reads the
\* URL, ends at once on an OAuth error, and otherwise builds a client with
\* createClient() and calls exchangeCodeForSession or getSession.
StartRun(r) ==
    /\ mounted
    /\ runs[r].pc = "idle"
    /\ \A q \in RunIds : q < r => runs[q].pc # "idle"
    /\ LET oauthError == OrElse(SearchParam(url, "error_description"),
                                SearchParam(url, "error"))
           hasCode    == Truthy(SearchParam(url, "code"))
           run        == [runs[r] EXCEPT
                            !.href = url,
                            !.alone = \A q \in RunIds :
                                         q < r => runs[q].pc = "done",
                            !.codeAtStart = provider.code]
           c          == createClient(constructed, "handleAuthCallback")
       IN  IF Truthy(oauthError)
           THEN /\ Settle(r, run, Conclude(OAuthErrorThrown(oauthError)))
                /\ UNCHANGED clientVars
           ELSE /\ runs' = [runs EXCEPT ![r] =
                              [run EXCEPT !.pc = IF hasCode THEN "exchange"
                                                 ELSE "lookup"]]
                /\ constructed' = c.constructed
                /\ holds' = holds \cup {Holds("handleAuthCallback", c.client)}
                /\ UNCHANGED <<clientInstance, status, message, timers>>
    /\ UNCHANGED <<auditVars, uiVars, syncVars, dbVars, url, mounted, pushed, provider>>

\* The provider answers the run's exchangeCodeForSession: a fresh code is
\* consumed for a session, or the call fails (an error returned, or the
\* promise rejected).
ProviderExchange(r) ==
    /\ runs[r].pc = "exchange"
    /\ \/ /\ provider.code = "fresh"
          /\ provider' = [provider EXCEPT !.code = "consumed"]
          /\ runs' = [runs EXCEPT ![r].pc = "exchanged"]
       \/ /\ \E failure \in {"error", "throw"} :
                runs' = [runs EXCEPT ![r].pc = "exchangeFailed",
                                     ![r].exchange = failure]
          /\ UNCHANGED provider
    /\ UNCHANGED <<auditVars, clientVars, uiVars, syncVars, dbVars, url, mounted, status, message, timers, pushed>>

\* window.history.replaceState({}, document.title, currentUrl.pathname)
replaceState(href) == Page(href.path)

\* exchangeCodeForSession resolved with a session: the client stored it, the
\* finally block rewrites the URL, and the run ends.
ExchangeReturns(r) ==
    /\ runs[r].pc = "exchanged"
    /\ provider' = [provider EXCEPT !.stored = TRUE]
    /\ url' = replaceState(runs[r].href)
    /\ Settle(r, [runs[r] EXCEPT !.exchange = "ok"],
              Conclude(Obtained(Some("session"))))
    /\ UNCHANGED <<auditVars, clientVars, uiVars, syncVars, dbVars, mounted, pushed>>

\* exchangeCodeForSession failed: the catch block calls getSession.
ExchangeFails(r) ==
    /\ runs[r].pc = "exchangeFailed"
    /\ runs' = [runs EXCEPT ![r].pc = "fallback"]
    /\ UNCHANGED <<auditVars, clientVars, uiVars, syncVars, dbVars, url, mounted, status, message, timers, pushed,
                   provider>>

\* The fallback getSession answered: the finally block rewrites the URL, and
\* the run ends.
FallbackReturns(r) ==
    /\ runs[r].pc = "fallback"
    /\ \E out \in BrowserSessionOutcomes(provider.stored) :
        Settle(r, [runs[r] EXCEPT !.lookup = LookupKind(out)],
               Conclude(FallbackLookup(out)))
    /\ url' = replaceState(runs[r].href)
    /\ UNCHANGED <<auditVars, clientVars, uiVars, syncVars, dbVars, mounted, pushed, provider>>

\* getSession answered on the path without a code, and the run ends.
LookupReturns(r) ==
    /\ runs[r].pc = "lookup"
    /\ \E out \in BrowserSessionOutcomes(provider.stored) :
        Settle(r, [runs[r] EXCEPT !.lookup = LookupKind(out)],
               Conclude(PlainLookup(out)))
    /\ UNCHANGED <<auditVars, clientVars, uiVars, syncVars, dbVars, url, mounted, pushed, provider>>

\* A scheduled callback fires: router.push(dest) navigates to dest, which
\* unmounts the callback page.
TimerFires ==
    /\ \E t \in timers :
        /\ timers' = timers \ {t}
        /\ pushed' = pushed \cup {t.dest}
        /\ url' = Page(t.dest)
    /\ mounted' = FALSE
    /\ UNCHANGED <<auditVars, clientVars, uiVars, syncVars, dbVars, status, message, runs, provider>>

\* The user navigates away and the component is torn down; the effect has
\* no cleanup function.
Unmount ==
    /\ mounted
    /\ mounted' = FALSE
    /\ url' = Page("/elsewhere")
    /\ UNCHANGED <<auditVars, clientVars, uiVars, syncVars, dbVars, status, message, runs, timers, pushed, provider>>

Start == \E r \in RunIds : StartRun(r)
Exchange == \E r \in RunIds : ProviderExchange(r)
Exchanged == \E r \in RunIds : ExchangeReturns(r)
ExchangeFailed == \E r \in RunIds : ExchangeFails(r)
Fallback == \E r \in RunIds : FallbackReturns(r)
Lookup == \E r \in RunIds : LookupReturns(r)

\* The callback page from landing to redirect.
NextCallback ==
    \/ Land
    \/ Start
    \/ Exchange
    \/ Exchanged
    \/ ExchangeFailed
    \/ Fallback
    \/ Lookup
    \/ TimerFires
    \/ Unmount

InitCallback ==
    /\ authUsers = {UpstreamRow(u) : u \in Users}
    /\ profiles = {}
    /\ now = 0
    /\ last = Idle
    /\ PageLoaded
    /\ SyncIdle
    /\ AuditEmpty
    /\ ClientUnset
    /\ UiUnmounted

SpecCallback == InitCallback /\ [][NextCallback]_vars

\* ---- the browser clients

\* The auth-context module is evaluated: `const supabase = createClient()`.
LoadAuthContext ==
    /\ \A h \in holds : h.holder # "auth-context"
    /\ LET c == createClient(constructed, "auth-context")
       IN  /\ constructed' = c.constructed
           /\ holds' = holds \cup {Holds("auth-context", c.client)}
    /\ UNCHANGED <<clientInstance, auditVars, uiVars, syncVars, cbVars, dbVars>>

\* Some module calls getSupabaseClient().
GetSupabaseClient ==
    /\ LET g == getSupabaseClient(clientInstance, constructed)
       IN  /\ clientInstance' = g.clientInstance
           /\ constructed' = g.constructed
           /\ holds' = holds \cup {Holds("getSupabaseClient", g.returns)}
    /\ UNCHANGED <<auditVars, uiVars, syncVars, cbVars, dbVars>>

\* The callback page together with the modules that obtain a client.
NextClient ==
    \/ NextCallback
    \/ LoadAuthContext
    \/ GetSupabaseClient

SpecClient == InitCallback /\ [][NextClient]_vars

\* ---- concurrent procedure calls and the upstream sync

\* A caller's transaction on the subject begins: NOW() is fixed for the
\* transaction.
BeginGetOrCreate(t) ==
    /\ txs[t].pc = "idle"
    /\ \A q \in TxIds : q < t => txs[q].pc # "idle"
    /\ txs' = [txs EXCEPT ![t] = [IdleTx EXCEPT
                  !.pc = "begun", !.kind = "get_or_create_profile",
                  !.user_uuid = SyncSubject, !.start = now]]
    /\ UNCHANGED <<auditVars, clientVars, uiVars, cbVars, authUsers, profiles, now, last, stmt>>

BeginUpdate(t) ==
    /\ txs[t].pc = "idle"
    /\ \A q \in TxIds : q < t => txs[q].pc # "idle"
    /\ \E data \in SyncProfileData :
        txs' = [txs EXCEPT ![t] = [IdleTx EXCEPT
                  !.pc = "begun", !.kind = "update_user_profile",
                  !.user_uuid = SyncSubject, !.profile_data = data,
                  !.start = now]]
    /\ UNCHANGED <<auditVars, clientVars, uiVars, cbVars, authUsers, profiles, now, last, stmt>>

\* get_or_create_profile runs its SELECT.
SelectTx(t) ==
    /\ txs[t].pc = "begun"
    /\ txs[t].kind = "get_or_create_profile"
    /\ LET r == get_or_create_select(profiles, txs[t].user_uuid)
       IN  txs' = [txs EXCEPT ![t].pc = r.pc, ![t].result = r.result]
    /\ UNCHANGED <<auditVars, clientVars, uiVars, cbVars, authUsers, profiles, now, last, stmt>>

\* get_or_create_profile runs its INSERT and returns, or the INSERT raises.
InsertTx(t) ==
    /\ txs[t].pc = "notfound"
    /\ LET r == get_or_create_insert(profiles, authUsers, txs[t].start,
                                     txs[t].user_uuid)
       IN  /\ profiles' = r.profiles
           /\ txs' = [txs EXCEPT ![t].pc = r.pc, ![t].result = r.result]
    /\ UNCHANGED <<auditVars, clientVars, uiVars, cbVars, authUsers, now, last, stmt>>

\* update_user_profile runs its UPDATE and returns.
UpdateTx(t) ==
    /\ txs[t].pc = "begun"
    /\ txs[t].kind = "update_user_profile"
    /\ LET r == update_user_profile(profiles, txs[t].start, txs[t].user_uuid,
                                    txs[t].profile_data)
       IN  /\ profiles' = r.profiles
           /\ txs' = [txs EXCEPT ![t].pc = "done", ![t].result = r.result]
    /\ UNCHANGED <<auditVars, clientVars, uiVars, cbVars, authUsers, now, last, stmt>>

\* The outcome of a statement on auth.users as the next value of stmt.
Ran(tg_op, new, writer, raised) ==
    [tg_op |-> tg_op, new |-> new, writer |-> writer, raised |-> raised,
     no |-> stmt.no + 1]

\* The provider registers the subject: INSERT INTO auth.users.  The AFTER ROW
\* trigger runs inside the statement: the auth.users row and the profile row
\* commit together, or the trigger's error aborts both.
UpstreamInsert ==
    /\ stmt.no < MaxStmts
    /\ \A au \in authUsers : au.id # SyncSubject
    /\ \E new \in {UpstreamRow(SyncSubject), UpstreamRowNoEmail(SyncSubject)},
          writer \in Writers :
        LET r == sync_profile_from_auth_users(profiles, now, "INSERT", new,
                                              writer)
        IN  /\ authUsers' = IF r.raised = NULL THEN authUsers \cup {new}
                            ELSE authUsers
            /\ profiles' = r.profiles
            /\ stmt' = Ran("INSERT", new, writer, r.raised)
    /\ UNCHANGED <<auditVars, clientVars, uiVars, cbVars, now, last, txs>>

\* The provider runs UPDATE auth.users SET email = .., raw_user_meta_data = ..
\* WHERE id = subject.  The trigger fires for a column in the SET list whether
\* or not the value changes, and runs inside the statement.
UpstreamUpdate ==
    /\ stmt.no < MaxStmts
    /\ \E old \in authUsers :
       \E ch \in UpstreamChanges \cup
                   {[email |-> old.email,
                     raw_user_meta_data |-> old.raw_user_meta_data]},
          writer \in Writers :
        LET new == [id |-> old.id, email |-> ch.email,
                    raw_user_meta_data |-> ch.raw_user_meta_data]
            r == sync_profile_from_auth_users(profiles, now, "UPDATE", new,
                                              writer)
        IN  /\ old.id = SyncSubject
            /\ authUsers' = IF r.raised = NULL
                            THEN (authUsers \ {old}) \cup {new}
                            ELSE authUsers
            /\ profiles' = r.profiles
            /\ stmt' = Ran("UPDATE", new, writer, r.raised)
    /\ UNCHANGED <<auditVars, clientVars, uiVars, cbVars, now, last, txs>>

\* The provider deletes the subject: DELETE FROM auth.users.
UpstreamDelete ==
    /\ \E au \in authUsers : au.id = SyncSubject
    /\ LET r == auth_users_delete(profiles, authUsers, SyncSubject)
       IN  /\ authUsers' = r.authUsers
           /\ profiles' = r.profiles
    /\ UNCHANGED <<auditVars, clientVars, uiVars, cbVars, now, last, txs, stmt>>

CallGetOrCreate == \E t \in TxIds : BeginGetOrCreate(t)
CallUpdate == \E t \in TxIds : BeginUpdate(t)
RunSelect == \E t \in TxIds : SelectTx(t)
RunInsert == \E t \in TxIds : InsertTx(t)
RunUpdate == \E t \in TxIds : UpdateTx(t)

\* Procedure calls in concurrent transactions, and the provider's statements
\* on auth.users, each with its trigger inside.
NextSync ==
    \/ Tick
    \/ CallGetOrCreate
    \/ CallUpdate
    \/ RunSelect
    \/ RunInsert
    \/ RunUpdate
    \/ UpstreamInsert
    \/ UpstreamUpdate
    \/ UpstreamDelete

\* The sync trigger was installed on a project that had registered u1, and
\* perhaps the subject, before.
InitSync ==
    /\ authUsers \in { {UpstreamRow("u1")},
                       {UpstreamRow("u1"), UpstreamRow(SyncSubject)} }
    /\ profiles = {}
    /\ now = 0
    /\ last = Idle
    /\ PageLoaded
    /\ SyncIdle
    /\ AuditEmpty
    /\ ClientUnset
    /\ UiUnmounted

SpecSync == InitSync /\ [][NextSync]_vars

\* Only first-time provisioning: get_or_create_profile calls and the
\* registration of the subject, its INSERT trigger inside.
NextCreate ==
    \/ Tick
    \/ CallGetOrCreate
    \/ RunSelect
    \/ RunInsert
    \/ UpstreamInsert

SpecCreate == InitSync /\ [][NextCreate]_vars

\* ---- the audit log

\* A caller invokes log_audit_event through the RPC interface.
LogAuditEvent ==
    /\ last = Idle
    /\ auditSeq < MaxAudit
    /\ \E ctx \in Contexts, args \in AuditArgs :
        LET r == log_audit_event(auditLogs, authUsers, auditSeq, now, ctx, args)
        IN  /\ auditLogs' = r.auditLogs
            /\ auditSeq' = r.auditSeq
            /\ last' = [op |-> "log_audit_event", ctx |-> ctx, args |-> args,
                        raised |-> r.raised]
    /\ UNCHANGED <<clientVars, uiVars, syncVars, cbVars, authUsers, profiles, now>>

SelectAuditLogs ==
    /\ last = Idle
    /\ \E ctx \in Contexts :
        last' = [op |-> "select_audit", ctx |-> ctx,
                 result |-> AuditSelect(auditLogs, ctx)]
    /\ UNCHANGED <<auditVars, clientVars, uiVars, syncVars, cbVars,
                   authUsers, profiles, now>>

InsertAuditLog ==
    /\ last = Idle
    /\ auditSeq < MaxAudit
    /\ \E ctx \in Contexts, args \in AuditArgs :
        LET r == AuditInsert(auditLogs, authUsers, auditSeq, now, ctx,
                             ctx.uid, args)
        IN  /\ auditLogs' = r.auditLogs
            /\ auditSeq' = r.auditSeq
            /\ last' = [op |-> "insert_audit", ctx |-> ctx, args |-> args,
                        result |-> r.result]
    /\ UNCHANGED <<clientVars, uiVars, syncVars, cbVars, authUsers, profiles, now>>

UpdateAuditLog ==
    /\ last = Idle
    /\ \E ctx \in Contexts :
        LET r == AuditUpdate(auditLogs, ctx, "redacted")
        IN  /\ auditLogs' = r.auditLogs
            /\ last' = [op |-> "update_audit", ctx |-> ctx, result |-> r.result]
    /\ UNCHANGED <<auditSeq, clientVars, uiVars, syncVars, cbVars,
                   authUsers, profiles, now>>

DeleteAuditLog ==
    /\ last = Idle
    /\ \E ctx \in Contexts :
        LET r == AuditDelete(auditLogs, ctx)
        IN  /\ auditLogs' = r.auditLogs
            /\ last' = [op |-> "delete_audit", ctx |-> ctx, result |-> r.result]
    /\ UNCHANGED <<auditSeq, clientVars, uiVars, syncVars, cbVars,
                   authUsers, profiles, now>>

\* The audit log next to the operations it is meant to record.
NextAudit ==
    \/ Tick
    \/ Return
    \/ LogAuditEvent
    \/ SelectAuditLogs
    \/ InsertAuditLog
    \/ UpdateAuditLog
    \/ DeleteAuditLog
    \/ RpcGetOrCreateProfile
    \/ ConcurrentInsert
    \/ RpcGetOrCreateInsert
    \/ RpcUpdateUserProfile
    \/ RpcCheckUserPermission

\* Only u1 is registered: a token for u2 names a subject auth.users lacks.
InitAudit ==
    /\ authUsers = {UpstreamRow("u1")}
    /\ profiles = {}
    /\ now = 0
    /\ last = Idle
    /\ PageLoaded
    /\ SyncIdle
    /\ AuditEmpty
    /\ ClientUnset
    /\ UiUnmounted

SpecAudit == InitAudit /\ [][NextAudit]_vars

\* ---- AuthProvider and AuthGuard
\* A callback's state setters queue updates and return; React renders the
\* queued updates later, all in one render, after it ran the effects of the
\* commit before.

\* The identity provider emits an auth state change: a sign-in stores a
\* session, a sign-out removes it, INITIAL_SESSION and TOKEN_REFRESHED carry
\* the stored one.  A subscribed AuthProvider runs its callback.
AuthStateChange ==
    /\ authCtx.events < MaxEvents
    /\ \E event \in {"SIGNED_IN", "SIGNED_OUT", "INITIAL_SESSION"} :
        LET stored  == CASE event = "SIGNED_IN"  -> TRUE
                         [] event = "SIGNED_OUT" -> FALSE
                         [] OTHER                -> provider.stored
            session == IF stored THEN Some(UiSession) ELSE None
            counted == [authCtx EXCEPT !.events = authCtx.events + 1]
            a       == IF authCtx.subscribed
                       THEN AuthStateChanged(counted, session)
                       ELSE counted
        IN  /\ provider' = [provider EXCEPT !.stored = stored]
            /\ authCtx' = a
            /\ guard' = Notified(guard, a, authCtx.subscribed)
    /\ UNCHANGED <<routed, auditVars, clientVars, syncVars, dbVars,
                   url, mounted, status, message, runs, timers, pushed>>

\* AuthProvider renders for the first time.
MountProvider ==
    /\ authCtx.mounted = "no"
    /\ authCtx' = [authCtx EXCEPT !.mounted = "yes", !.pc = "effect"]
    /\ UNCHANGED <<guard, routed, auditVars, clientVars, syncVars, cbVars, dbVars>>

\* AuthProvider's effect, after the effects of the components below it:
\* without a window setLoading(false); otherwise getInitialUser() runs to its
\* first await, and onAuthStateChange subscribes.
ProviderEffect ==
    /\ authCtx.pc = "effect"
    /\ ~(guard.hydrate \/ guard.redirect)
    /\ \E hasWindow \in BOOLEAN :
        LET a == IF hasWindow
                 THEN [authCtx EXCEPT !.pc = "getUser", !.subscribed = TRUE]
                 ELSE [authCtx EXCEPT !.pc = "done", !.loading = FALSE]
        IN  authCtx' = a
    /\ UNCHANGED <<guard, routed, auditVars, clientVars, syncVars, cbVars, dbVars>>

\* getUser answers, and getInitialUser goes on to its next await or its end.
GetUserReturns ==
    /\ authCtx.pc = "getUser"
    /\ \E out \in BrowserUserOutcomes :
        LET a == AfterGetUser(authCtx, out)
        IN  /\ authCtx' = a
            /\ guard' = Notified(guard, a, TRUE)
    /\ UNCHANGED <<routed, auditVars, clientVars, syncVars, cbVars, dbVars>>

\* The client reads the stored session for getSession, or the call fails.
SessionRead ==
    /\ authCtx.pc = "getSession"
    /\ \E kind \in {"return", "reject"} :
        authCtx' = [authCtx EXCEPT
                      !.pc = "gotSession",
                      !.read = [kind |-> kind,
                                session |-> IF kind = "return" /\ provider.stored
                                            THEN Some(UiSession) ELSE None]]
    /\ UNCHANGED <<guard, routed, auditVars, clientVars, syncVars, cbVars, dbVars>>

\* getSession answers with what the client read, and getInitialUser ends.
GetSessionReturns ==
    /\ authCtx.pc = "gotSession"
    /\ LET a == AfterGetSession(authCtx, authCtx.read)
       IN  /\ authCtx' = a
           /\ guard' = Notified(guard, a, authCtx.read.kind # "return")
    /\ UNCHANGED <<routed, auditVars, clientVars, syncVars, cbVars, dbVars>>

\* AuthProvider unmounts, and AuthGuard below it: subscription.unsubscribe().
UnmountProvider ==
    /\ authCtx.mounted = "yes"
    /\ authCtx' = [authCtx EXCEPT !.mounted = "gone", !.subscribed = FALSE,
                                  !.pc = IF authCtx.pc = "effect" THEN "done"
                                         ELSE authCtx.pc]
    /\ guard' = IF guard.mounted = "yes"
                THEN [guard EXCEPT !.mounted = "gone", !.hydrate = FALSE,
                                   !.redirect = FALSE, !.newUser = FALSE,
                                   !.view = "none"]
                ELSE guard
    /\ UNCHANGED <<routed, auditVars, clientVars, syncVars, cbVars, dbVars>>

\* A protected page is opened: AuthGuard renders for the first time, with
\* useState(false) for isHydrated; both its effects are scheduled.
MountGuard ==
    /\ authCtx.mounted = "yes"
    /\ guard.mounted = "no"
    /\ guard' = [mounted    |-> "yes",
                 isHydrated |-> FALSE,
                 view       |-> GuardRender(FALSE, authCtx.loading, authCtx.user),
                 seen       |-> Closure(authCtx, FALSE),
                 hydrate    |-> TRUE,
                 redirect   |-> TRUE,
                 newUser    |-> FALSE]
    /\ UNCHANGED <<authCtx, routed, auditVars, clientVars, syncVars, cbVars, dbVars>>

\* AuthGuard's scheduled effects run with the values of the render that
\* scheduled them: setIsHydrated(true) after the first render, which queues
\* the update, and the redirect effect.
GuardEffects ==
    /\ guard.hydrate \/ guard.redirect
    /\ LET push == guard.redirect
                   /\ RedirectEffect(guard.seen.user, guard.seen.loading,
                                     guard.seen.isHydrated)
           ran  == [guard EXCEPT !.isHydrated = guard.isHydrated \/ guard.hydrate,
                                 !.hydrate = FALSE,
                                 !.redirect = FALSE]
       IN  /\ routed' = IF push THEN Append(routed, redirectTo) ELSE routed
           /\ guard' = ran
    /\ UNCHANGED <<authCtx, auditVars, clientVars, syncVars, cbVars, dbVars>>

\* React renders the queued updates: AuthGuard runs again with the latest
\* state of the context and of isHydrated, once the effects of the commit
\* before have run.
Render ==
    /\ RenderPending
    /\ ~EffectsPending
    /\ guard' = Rerender(guard, authCtx)
    /\ UNCHANGED <<authCtx, routed, auditVars, clientVars, syncVars, cbVars, dbVars>>

\* The protected page is left: AuthGuard unmounts.
UnmountGuard ==
    /\ guard.mounted = "yes"
    /\ guard' = [guard EXCEPT !.mounted = "gone", !.hydrate = FALSE,
                              !.redirect = FALSE, !.newUser = FALSE,
                              !.view = "none"]
    /\ UNCHANGED <<authCtx, routed, auditVars, clientVars, syncVars, cbVars, dbVars>>

NextUi ==
    \/ AuthStateChange
    \/ MountProvider
    \/ ProviderEffect
    \/ GetUserReturns
    \/ SessionRead
    \/ GetSessionReturns
    \/ UnmountProvider
    \/ MountGuard
    \/ GuardEffects
    \/ Render
    \/ UnmountGuard

SpecUi == InitCallback /\ [][NextUi]_vars

\* The provider's calls answer, and React runs the effects it scheduled.
SpecUiLive ==
    /\ SpecUi
    /\ WF_vars(ProviderEffect)
    /\ WF_vars(GuardEffects)
    /\ WF_vars(GetUserReturns)
    /\ WF_vars(SessionRead)
    /\ WF_vars(GetSessionReturns)



-----------------------------------------------------------------------------
\* Properties of the session resolver.

ServerOps == {"getServerSession", "authenticateUser", "checkUserPermission"}

\* The user getUser() returned in the request `last` records.
VerifiedUser == Get(last.env.getUser.user)

\* C1: getServerSession returns a non-null session only if getUser returned a
\* user and no error in that call; the session's id, email and metadata are
\* those of the getUser result ({} when it has no metadata), and the locally
\* read session contributes only access_token.
C1_SessionFromVerifiedClaims ==
    (last.op \in ServerOps /\ last.session # None) =>
        /\ Verified(last.env)
        /\ Get(last.session).user.id = VerifiedUser.id
        /\ Get(last.session).user.email = VerifiedUser.email
        /\ Get(last.session).user.user_metadata =
               (IF VerifiedUser.user_metadata = None THEN EmptyMeta
                ELSE Get(VerifiedUser.user_metadata))
        /\ Get(last.session).access_token =
               (IF last.env.getSession.session = None THEN ""
                ELSE Get(last.env.getSession.session).access_token)

\* A session was returned although the local session names another subject
\* with another email and other metadata.
C1_Witness ==
    /\ last.op = "getServerSession"
    /\ last.session # None
    /\ last.env.getSession.session # None
    /\ Get(last.env.getSession.session).user.id # Get(last.session).user.id
    /\ Get(last.env.getSession.session).user.email # Get(last.session).user.email

\* C2: whenever verification fails (createServerSupabase or getUser throws,
\* getUser returns an error, or returns no user), getServerSession returns
\* null; it has no other outcome, an exception included.
C2_FailureIsNull ==
    (last.op = "getServerSession" /\ ~Verified(last.env)) =>
        last.session = None

\* getUser returned a user together with an error, and the result was null.
C2_Witness ==
    /\ last.op = "getServerSession"
    /\ last.env.getUser.kind = "return"
    /\ last.env.getUser.user # None
    /\ last.env.getUser.error # NULL
    /\ last.session = None

\* C3: whenever getUser has verified a subject, getServerSession returns a
\* non-null session for that subject, however the getSession call fails.
C3_VerifiedSurvivesTokenFetch ==
    (last.op = "getServerSession" /\ Verified(last.env)) =>
        /\ last.session # None
        /\ Get(last.session).user.id = VerifiedUser.id

-----------------------------------------------------------------------------
\* Properties of the authorization decision.

\* C4: for a subject s with a verified session, checkUserPermission(s, p) is
\* authorized for every p, whatever the get_or_create_profile lookup does
\* (stated for requests whose client was constructed, so that only the lookup
\* is left to differ).
C4_OwnerAlwaysAllowed ==
    (/\ last.op = "checkUserPermission"
     /\ last.env.client = "ok"
     /\ last.session # None
     /\ last.userId = Get(last.session).user.id) =>
        last.authorized

\* C5: a subject A without the elevated role is denied on a resource owned by
\* B # A, by checkUserPermission and by check_user_permission, for every
\* permission value.
C5_OtherOwnerDenied ==
    /\ (/\ last.op = "checkUserPermission"
        /\ RequestCtx(last.env).uid # NULL
        /\ RequestCtx(last.env).uid # last.userId
        /\ RequestCtx(last.env).role # "service_role") =>
            (~last.authorized /\ last.user = None)
    /\ (/\ last.op = "check_user_permission"
        /\ last.ctx.uid # NULL
        /\ last.resource_user_id \in Users
        /\ last.ctx.uid # last.resource_user_id
        /\ last.ctx.role # "service_role") =>
            last.result = FALSE

\* Subject A is signed in and has a profile, the lookup worked, and the
\* request for B's resource was denied.
C5_Witness ==
    /\ last.op = "checkUserPermission"
    /\ last.session # None
    /\ last.env.rpc = "ok"
    /\ \E r \in profiles : r.user_id = Get(last.session).user.id
    /\ last.userId # Get(last.session).user.id
    /\ last.env.role = "authenticated"
    /\ ~last.authorized

\* C6: with no subject (auth.uid() is NULL / no verified session) the decision
\* is deny for every owner and permission, also for a token that carries the
\* elevated role and also when the owner argument is NULL.
C6_AbsentSubjectDenied ==
    /\ (last.op = "check_user_permission" /\ last.ctx.uid = NULL) =>
            last.result = FALSE
    /\ (last.op = "checkUserPermission" /\ last.session = None) =>
            ~last.authorized

\* A caller without subject but with the service_role claim was denied.
C6_Witness ==
    /\ last.op = "check_user_permission"
    /\ last.ctx.uid = NULL
    /\ last.ctx.role = "service_role"
    /\ last.resource_user_id \in Users
    /\ last.result = FALSE

\* C7: an authenticated subject that is not the owner but carries the role
\* claim service_role is allowed by check_user_permission.
C7_ElevatedRoleAllowed ==
    (/\ last.op = "check_user_permission"
     /\ last.ctx.uid # NULL
     /\ last.ctx.uid # last.resource_user_id
     /\ last.ctx.role = "service_role") =>
        last.result = TRUE

\* u1 with the service_role claim was allowed on u2's resource.
C7_Witness ==
    /\ last.op = "check_user_permission"
    /\ last.ctx = [uid |-> "u1", role |-> "service_role"]
    /\ last.resource_user_id = "u2"
    /\ last.result = TRUE

\* No call of the request failed in transit: the client was constructed and
\* every call the code reached returned.
NoFailure(env) ==
    /\ env.client = "ok"
    /\ env.getUser.kind = "return"
    /\ env.getSession.kind \in {"return", "notcalled"}
    /\ env.rpc \in {"ok", "notcalled"}

\* C8: for every combination of subject (present or absent), owner and role,
\* the decision of checkUserPermission equals the decision of
\* check_user_permission for the same caller and owner (stated for requests
\* in which no call failed in transit).
C8_AppEqualsStorage ==
    (last.op = "checkUserPermission" /\ NoFailure(last.env)) =>
        last.authorized =
            check_user_permission(RequestCtx(last.env), last.userId,
                                  last.permission)

-----------------------------------------------------------------------------
\* Properties of the row-level policies and the stored procedures.

\* C9: the policies on profiles admit a SELECT, INSERT or UPDATE of a row
\* exactly when check_user_permission is TRUE for the row's owner.
C9_PoliciesEqualFunction ==
    /\ last.op = "select" =>
           last.result = {r \in profiles :
                             check_user_permission(last.ctx, r.user_id, "read")}
    /\ last.op = "insert" =>
           ((last.result # "rls_violation") <=>
                check_user_permission(last.ctx, last.vals.user_id, "write"))
    /\ (/\ last.op = "update"
        /\ \/ last.result = "updated_1"
           \/ \E r \in profiles : r.user_id = last.target) =>
           ((last.result # "updated_0") <=>
                check_user_permission(last.ctx, last.target, "write"))

WriteOps ==
    {"insert", "update", "delete", "get_or_create_profile", "update_user_profile"}

\* C10: no storage operation (direct write under RLS, get_or_create_profile,
\* update_user_profile) of a subject A without the elevated role creates or
\* modifies a profile row owned by a subject B # A.
C10_NoForeignWrite ==
    [][(/\ last'.op \in WriteOps
        /\ last'.ctx.uid \in Users
        /\ last'.ctx.role # "service_role") =>
            \A r \in (profiles' \ profiles) \cup (profiles \ profiles') :
                r.user_id = last'.ctx.uid]_vars

-----------------------------------------------------------------------------
\* Properties of the storage operations, continued.

\* A caller holding a subject's token without the elevated role.
NonElevated(ctx) == ctx.uid \in Users /\ ctx.role # "service_role"

\* The operations whose result is data read from the profiles table.
ResultOps == {"select", "get_or_create_profile", "update_user_profile"}

\* The tables that differ from table only in the contents of one row owned
\* by a subject other than caller.
Variants(table, caller) ==
    { (table \ {r}) \cup {[r EXCEPT !.email = "z@x", !.full_name = "Z",
                                    !.avatar_url = "z.png"]} :
        r \in {x \in table : x.user_id # caller} }

\* The result the operation recorded in op has when its step, taken from
\* `from`, runs on table.
ResultOn(from, op, table, upstream, clock) ==
    CASE op.op = "select" -> TableSelect(table, op.ctx)
      [] op.op = "get_or_create_profile" ->
            IF from = Idle
            THEN get_or_create_select(table, op.user_uuid).result
            ELSE get_or_create_insert(table, upstream, clock,
                                      op.user_uuid).result
      [] op.op = "update_user_profile" ->
            update_user_profile(table, clock, op.user_uuid,
                                op.profile_data).result

\* C11: for a caller A without the elevated role, the result of every storage
\* operation available to A (table reads under row-level security,
\* get_or_create_profile, update_user_profile) is the same in two states that
\* differ only in the contents of a profile row owned by another subject.
C11_Noninterference ==
    [][(/\ last = Idle \/ last.op = NotFoundYet
        /\ last'.op \in ResultOps
        /\ NonElevated(last'.ctx))
       => \A other \in Variants(profiles, last'.ctx.uid) :
             ResultOn(last, last', other, authUsers, now) = last'.result]_vars

\* The value a created profile takes for an upstream value: the value itself,
\* the empty string when upstream has none.
OrEmpty(v) == IF v = NULL THEN "" ELSE v

\* The step is the SELECT of a call get_or_create_profile(id) finding the
\* profile of id: the call returns that row with code FOUND and leaves the
\* table as it was.
FoundStep ==
    LET existing == {r \in profiles : r.user_id = last'.user_uuid}
    IN  last = Idle =>
            /\ last'.result.code = "FOUND"
            /\ last'.result.profile \in {Some(r) : r \in existing}
            /\ profiles' = profiles

\* The step is the INSERT of a call get_or_create_profile(id) that had found
\* no profile of id, and there is an upstream record: it inserts exactly one
\* row, built from the upstream record (the email being the upstream email,
\* or the empty string when upstream has none), and the call returns that row
\* with code CREATED.
CreatedStep ==
    LET id  == last'.user_uuid
        src == {au \in authUsers : au.id = id}
    IN  (last.op = NotFoundYet /\ src # {}) =>
            \E au \in src :
               /\ last'.result.code = "CREATED"
               /\ last'.result.profile # None
               /\ LET row == Get(last'.result.profile)
                  IN  /\ row \notin profiles
                      /\ profiles' = profiles \cup {row}
                      /\ row.user_id = id
                      /\ row.email \in {au.email, OrEmpty(au.email)}
                      /\ row.full_name = OrEmpty(au.raw_user_meta_data.full_name)
                      /\ row.avatar_url = OrEmpty(au.raw_user_meta_data.avatar_url)

\* C20: get_or_create_profile(id) returns the existing row with code FOUND
\* without modifying it when a profile exists; when it finds none and the
\* upstream record exists, it inserts exactly one row whose email is the
\* upstream email and whose display name and avatar are the upstream values,
\* or the empty string when absent, and returns it with code CREATED.
C20_GetOrCreate ==
    [][(last # last' /\ last'.op = "get_or_create_profile")
       => (FoundStep /\ CreatedStep)]_vars

-----------------------------------------------------------------------------
\* Properties of the OAuth callback.

\* The URL carries an error or an error_description.
CarriesError(href) == Truthy(href.error) \/ Truthy(href.error_description)

\* The decoded description, or the decoded error code when the URL has no
\* description.
ReportedError(href) ==
    IF Truthy(href.error_description)
    THEN Get(SearchParam(href, "error_description"))
    ELSE Get(SearchParam(href, "error"))

\* C12: when the landing URL carries an error or error_description
\* parameter, the run ends in the error state with the decoded
\* error_description as message, or the error code when there is no
\* description, and exchangeCodeForSession is never called, even if the URL
\* also carries a code.
C12_OAuthErrorReported ==
    \A r \in RunIds :
        (runs[r].pc # "idle" /\ CarriesError(runs[r].href)) =>
            /\ runs[r].pc = "done"
            /\ runs[r].exchange = "notcalled"
            /\ runs[r].outcome = "error"
            /\ runs[r].message = ReportedError(runs[r].href)

\* C13: when the URL carries a code and the exchange fails, by an error
\* returned or by throwing, the run performs the fallback getSession, and
\* ends in success if that lookup yields a session.
C13_FallbackAfterFailedExchange ==
    \A r \in RunIds :
        (runs[r].pc = "done" /\ runs[r].exchange \in {"error", "throw"}) =>
            /\ runs[r].lookup # "notcalled"
            /\ runs[r].lookup = "session" => runs[r].outcome = "success"

\* The exchange threw, the fallback lookup found a session, and the page
\* shows success with the URL rewritten.
C13_Witness ==
    \E r \in RunIds :
        /\ runs[r].pc = "done"
        /\ runs[r].exchange = "throw"
        /\ runs[r].lookup = "session"
        /\ runs[r].outcome = "success"
        /\ Truthy(runs[r].href.code)
        /\ status = "success"
        /\ url = Page("/auth/callback")

\* C14: on both paths that reach the session lookup, every failure of the
\* lookup (no session, an error returned, the call rejected) ends in the
\* error state with the fixed message that no session was obtained; no
\* message of the provider is shown.
C14_LookupFailureNormalised ==
    \A r \in RunIds :
        (runs[r].pc = "done" /\ runs[r].lookup \in {"null", "error", "reject"}) =>
            /\ runs[r].outcome = "error"
            /\ runs[r].message = NoSessionMsg

\* C15: a run that follows an earlier, finished run for the same landing,
\* the landing's code being consumed already, does not raise: it reaches a
\* terminal state, success if getSession yields a session and error
\* otherwise.
C15_SecondRunTerminates ==
    \A r \in RunIds :
        (r > 1 /\ runs[r].alone /\ runs[r].codeAtStart = "consumed") =>
            /\ runs[r].pc \in {"exchange", "exchangeFailed", "fallback",
                               "lookup", "done"}
            /\ runs[r].pc = "done" =>
                  /\ runs[r].outcome \in {"success", "error"}
                  /\ runs[r].outcome = "success" <=> runs[r].lookup = "session"

\* The first run exchanged the code; the second run, started after it, found
\* the session by getSession and ended in success.
C15_Witness ==
    /\ runs[1].pc = "done"
    /\ runs[1].exchange = "ok"
    /\ runs[2].pc = "done"
    /\ runs[2].alone
    /\ runs[2].codeAtStart = "consumed"
    /\ runs[2].lookup = "session"
    /\ runs[2].outcome = "success"

\* C16: whenever the status is success or error, the visible URL carries
\* none of code, error and error_description.
C16_TerminalUrlStripped ==
    (mounted /\ status \in {"success", "error"}) =>
        /\ url.code = None
        /\ url.error = None
        /\ url.error_description = None

\* The redirect a run in a terminal state is to schedule.
RedirectOf(outcome) ==
    IF outcome = "success"
    THEN [dest |-> successRedirect, delay |-> successDelay]
    ELSE [dest |-> errorRedirect, delay |-> errorDelay]

\* C17: each run schedules exactly one redirect: to successRedirect after
\* successDelay if and only if it ended in success, to errorRedirect after
\* errorDelay if and only if it ended in error; a run schedules nothing
\* before it ends.
C17_OneRedirectPerRun ==
    \A r \in RunIds :
        /\ runs[r].pc # "done" =>
              /\ runs[r].scheduled = <<>>
              /\ \A t \in timers : t.run # r
        /\ runs[r].pc = "done" =>
              /\ runs[r].outcome \in {"success", "error"}
              /\ runs[r].scheduled = <<RedirectOf(runs[r].outcome)>>
              /\ \A t \in timers :
                    t.run = r => [dest |-> t.dest, delay |-> t.delay]
                                    = RedirectOf(runs[r].outcome)

\* One run ended in success and another in error, each with its own redirect
\* pending.
C17_Witness ==
    \E r, q \in RunIds :
        /\ runs[r].pc = "done" /\ runs[r].outcome = "success"
        /\ runs[q].pc = "done" /\ runs[q].outcome = "error"
        /\ [run |-> r, dest |-> successRedirect, delay |-> successDelay] \in timers
        /\ [run |-> q, dest |-> errorRedirect, delay |-> errorDelay] \in timers

\* C18: for one landing, once the displayed status is success or error it
\* never changes again, and no redirect to the other destination is
\* scheduled, also when the effect runs twice and the runs interleave.
C18_TerminalStatusStable ==
    [][(status \in {"success", "error"})
       => (status' = status
           /\ (\A t \in (timers' \ timers) :
                  t.dest = RedirectOf(status).dest))]_vars

\* C19: when the component is torn down while the exchange or the lookup is
\* in flight, the abandoned run afterwards changes no component state,
\* rewrites no URL and schedules no navigation.
C19_AbandonedRunInert ==
    [][(~mounted /\ runs' # runs)
       => (status' = status /\ message' = message
           /\ url' = url /\ timers' = timers)]_vars

\* C21: get_or_create_profile(id) for a subject with no profile and no
\* upstream identity record returns a failure with code USER_NOT_FOUND, which
\* is neither FOUND nor CREATED, and leaves the profiles table unchanged.
C21_UserNotFound ==
    [][(last.op = NotFoundYet /\ last'.op = "get_or_create_profile"
        /\ (\A r \in profiles : r.user_id # last'.user_uuid)
        /\ (\A au \in authUsers : au.id # last'.user_uuid))
       => (last'.result.code = "USER_NOT_FOUND"
           /\ last'.result.code \notin {"FOUND", "CREATED"}
           /\ ~last'.result.success
           /\ last'.result.profile = None
           /\ profiles' = profiles)]_vars

\* The call reported USER_NOT_FOUND for a subject without upstream record
\* while another subject has a profile.
C21_Witness ==
    /\ last.op = "get_or_create_profile"
    /\ last.result.code = "USER_NOT_FOUND"
    /\ \A au \in authUsers : au.id # last.user_uuid
    /\ \A r \in profiles : r.user_id # last.user_uuid
    /\ profiles # {}

\* The request recorded in last is one of a verified subject whose RPC
\* reached get_or_create_profile and got USER_NOT_FOUND.
SubjectNotFound ==
    /\ last.op = "authenticateUser"
    /\ last.session # None
    /\ last.env.client = "ok"
    /\ last.env.rpc = "ok"
    /\ \A r \in profiles : r.user_id # Get(last.session).user.id
    /\ \A au \in authUsers : au.id # Get(last.session).user.id

\* The requests that are unauthenticated, and those whose RPC fails.
Unauthenticated(env) == Reaches(env, TRUE) /\ getServerSession(env) = None
StorageFailure(env) ==
    Reaches(env, TRUE) /\ getServerSession(env) # None
        /\ env.rpc \in {"error", "throw"}

\* C22: when the verified subject has no upstream identity record
\* (get_or_create_profile reports USER_NOT_FOUND), the result of
\* authenticateUser differs from its result for an unauthenticated request
\* and from its result for a storage or network failure.
C22_SubjectNotFoundDistinct ==
    SubjectNotFound =>
        \A env \in ServerEnvs :
            (Unauthenticated(env) \/ StorageFailure(env)) =>
                authenticateUser(env, profiles, authUsers, now).user # last.user

\* The step is update_user_profile on the existing row old, which becomes new.
MergeStep(old, new) ==
    LET data == last'.profile_data
    IN  /\ new.email = (IF data.email # NULL THEN data.email ELSE old.email)
        /\ new.full_name =
              (IF data.full_name # NULL THEN data.full_name ELSE old.full_name)
        /\ new.avatar_url =
              (IF data.avatar_url # NULL THEN data.avatar_url ELSE old.avatar_url)
        /\ (old.email # NULL => new.email # NULL)
        /\ (old.full_name # NULL => new.full_name # NULL)
        /\ (old.avatar_url # NULL => new.avatar_url # NULL)

\* C25: update_user_profile(id, partial) on an existing profile sets each of
\* email, full_name, avatar_url that partial provides to the provided value
\* and leaves every field that partial omits, or gives as null, at its
\* previous value; no call sets a field to null.
C25_UpdateMerges ==
    [][(last = Idle /\ last'.op = "update_user_profile")
       => (\A old \in profiles :
              (old.user_id = last'.user_uuid) =>
                  (\E new \in profiles' :
                      /\ new.user_id = old.user_id
                      /\ last'.result.profile = Some(new)
                      /\ profiles' = (profiles \ {old}) \cup {new}
                      /\ MergeStep(old, new)))]_vars

\* An update with {} found the email an earlier update had set, and left it.
C25_Witness ==
    /\ last.op = "update_user_profile"
    /\ last.profile_data = [email |-> NULL, full_name |-> NULL,
                            avatar_url |-> NULL]
    /\ last.result.success
    /\ Get(last.result.profile).email = "new@x"
    /\ Get(last.result.profile).full_name = "Bob"

-----------------------------------------------------------------------------
\* Properties of concurrent provisioning and of the upstream sync.

\* The get_or_create_profile calls that returned a profile.
Received == {t \in TxIds : /\ txs[t].kind = "get_or_create_profile"
                           /\ txs[t].pc = "done"
                           /\ txs[t].result.success}

\* C23: after any interleaving of get_or_create_profile calls and auth.users
\* INSERT-trigger syncs for one subject id, the profiles table holds at most
\* one row for that id, and every caller that received a profile received
\* that same row.
C23_OneRowOneAnswer ==
    /\ \A r, x \in profiles : r.user_id = x.user_id => r = x
    /\ \A t \in Received : Get(txs[t].result.profile) \in profiles
    /\ \A t, q \in Received : txs[t].result.profile = txs[q].result.profile

\* The subject registered and the trigger created its profile in the same
\* statement; a call that had looked before lost its insert, and a call that
\* looked afterwards found the trigger's row.
C23_Witness ==
    /\ stmt.tg_op = "INSERT"
    /\ stmt.raised = NULL
    /\ \E t \in TxIds, q \in Received :
        /\ txs[t].pc = "raised"
        /\ txs[q].result.code = "FOUND"
        /\ Get(txs[q].result.profile).email = stmt.new.email

\* C24: when two get_or_create_profile calls for the same subject without
\* profile run concurrently, both lookups completing before either insert,
\* the caller whose insert loses receives no error: it returns the winner's
\* row with status FOUND.
C24_LoserSeesWinner ==
    \A t, q \in TxIds :
        (/\ t # q
         /\ txs[q].result.code = "CREATED"
         /\ txs[t].kind = "get_or_create_profile"
         /\ txs[t].pc \in {"done", "raised"}
         /\ txs[t].result.code # "USER_NOT_FOUND")
        => /\ txs[t].pc = "done"
           /\ txs[t].result = Success("FOUND", Get(txs[q].result.profile))

\* The step runs a statement on auth.users whose trigger is called with
\* tg_op.
Runs(tg_op) == stmt'.no # stmt.no /\ stmt'.tg_op = tg_op

\* The step is a successful update of the subject's row: update_user_profile
\* returning UPDATED, or the sync trigger's UPDATE reaching the row.
UpdatesRow ==
    \/ \E t \in TxIds : /\ txs[t].pc = "begun"
                        /\ txs'[t].pc = "done"
                        /\ txs'[t].kind = "update_user_profile"
                        /\ txs'[t].result.success
    \/ Runs("UPDATE") /\ stmt'.writer = "owner"

\* C26: for every profile, updated_at after each successful update
\* (update_user_profile or the sync trigger's UPDATE) is strictly greater
\* than before that update, and it never decreases over any sequence of
\* operations.
C26_UpdatedAtMonotonic ==
    [][\A old \in profiles : \A new \in profiles' :
          (old.user_id = new.user_id)
          => (new.updated_at >= old.updated_at
              /\ (UpdatesRow => new.updated_at > old.updated_at))]_vars

\* A value is present and not the empty string.
NonEmpty(v) == v # NULL /\ v # ""

\* C27: on an upstream change for a subject with a profile, the sync sets
\* the profile email to the upstream email unconditionally, and overwrites
\* display name and avatar only when the upstream value is non-empty: an
\* absent or empty upstream value leaves the profile value unchanged.  Stated
\* for the statements of a writer the policies do not stop.
C27_SyncKeepsOnEmpty ==
    [][\A old \in profiles :
          (Runs("UPDATE") /\ stmt'.writer = "owner"
             /\ old.user_id = stmt'.new.id)
          => (\E new \in profiles' :
                /\ new.user_id = old.user_id
                /\ new.email = stmt'.new.email
                /\ new.full_name =
                     (IF NonEmpty(stmt'.new.raw_user_meta_data.full_name)
                      THEN stmt'.new.raw_user_meta_data.full_name
                      ELSE old.full_name)
                /\ new.avatar_url =
                     (IF NonEmpty(stmt'.new.raw_user_meta_data.avatar_url)
                      THEN stmt'.new.raw_user_meta_data.avatar_url
                      ELSE old.avatar_url))]_vars

\* C28: whenever an upstream notification (INSERT, or UPDATE of email or
\* metadata) is processed without error for a subject that has no profile at
\* that moment, a profile row for that subject exists after the sync.
C28_SyncCreatesMissing ==
    [][((Runs("INSERT") \/ Runs("UPDATE")) /\ stmt'.raised = NULL
           /\ (\A r \in profiles : r.user_id # stmt'.new.id))
          => (\E r \in profiles' : r.user_id = stmt'.new.id)]_vars

\* A get_or_create_profile call for the id is between its begin and its
\* return.
BeingCreated(id) ==
    \E t \in TxIds : /\ txs[t].kind = "get_or_create_profile"
                     /\ txs[t].user_uuid = id
                     /\ txs[t].pc \in {"begun", "notfound"}

\* C29: when the sync's creation path runs for a subject whose profile
\* exists already or is being created concurrently, it raises no error,
\* creates no second row and leaves the existing row unchanged.
C29_SyncInsertAbsorbed ==
    [][(/\ Runs("INSERT")
        /\ \/ \E r \in profiles : r.user_id = stmt'.new.id
           \/ BeingCreated(stmt'.new.id))
          => (/\ stmt'.raised = NULL
              /\ \A r, x \in profiles' : r.user_id = x.user_id => r = x
              /\ \A r \in profiles : r.user_id = stmt'.new.id
                                     => r \in profiles')]_vars

\* C30: in every reachable state every profile row's subject id refers to an
\* existing upstream identity record: the creation paths insert only for
\* existing records, and deleting a record removes its profile in the same
\* step.
C30_ProfileHasUpstream ==
    \A r \in profiles : \E au \in authUsers : au.id = r.user_id

\* A call had created the subject's profile; the subject has been deleted
\* upstream since, and neither record nor profile remains.
C30_Witness ==
    /\ \A au \in authUsers : au.id # SyncSubject
    /\ \A r \in profiles : r.user_id # SyncSubject
    /\ \E t \in TxIds : txs[t].result.code = "CREATED"


\* ------------------------------------------------------------- audit log

ElevatedRole(ctx) == ctx.role = "service_role"

\* C31: the audit rows a SELECT returns to a caller are rows whose actor is
\* the caller's own (non-null) subject id, unless the caller carries the
\* elevated role; in particular a row recorded with a null actor is returned
\* only to the elevated role.
C31_AuditReadRestricted ==
    last.op = "select_audit" =>
        \A r \in last.result :
            \/ ElevatedRole(last.ctx)
            \/ (r.user_id # NULL /\ r.user_id = last.ctx.uid)

\* A signed-in caller without the elevated role reads the table while it
\* holds a row of theirs and a row without actor: only their own row returns.
C31_Witness ==
    /\ last.op = "select_audit"
    /\ ~ElevatedRole(last.ctx)
    /\ \E r \in auditLogs : r.user_id = NULL
    /\ last.result # {}
    /\ last.result # auditLogs

\* The step is a call of log_audit_event.
LogsEvent == last = Idle /\ last'.op = "log_audit_event"

\* The step appends exactly one row, recorded for `actor`, and keeps the rest.
AppendsOneFor(actor) ==
    \E row \in auditLogs' :
        /\ row \notin auditLogs
        /\ auditLogs' = auditLogs \cup {row}
        /\ row.user_id = actor

\* The step is an operation of a caller without the elevated role.
NonElevatedStep ==
    /\ last = Idle
    /\ last' # Idle
    /\ ~ElevatedRole(last'.ctx)

\* C32 (as claimed): each log_audit_event call appends exactly one audit row
\* whose actor is the caller's subject id and leaves every existing row
\* unchanged; no operation of a caller without the elevated role updates or
\* deletes an audit row.
C32_EachCallAppendsOne ==
    [][((LogsEvent) => AppendsOneFor(last'.ctx.uid))
       /\ ((NonElevatedStep) => auditLogs \subseteq auditLogs')]_vars

\* C32 (amended): each log_audit_event call whose INSERT is accepted appends
\* exactly one audit row whose actor is the caller's subject id (null if
\* unauthenticated) and leaves every existing row unchanged; a call whose
\* INSERT is rejected leaves the table unchanged; no operation of a caller
\* without the elevated role updates or deletes an audit row.
C32_AppendOnly ==
    [][((LogsEvent /\ last'.raised = NULL) => AppendsOneFor(last'.ctx.uid))
       /\ ((LogsEvent /\ last'.raised # NULL) => auditLogs' = auditLogs)
       /\ ((NonElevatedStep) => auditLogs \subseteq auditLogs')]_vars

\* An unauthenticated caller's event was appended to a table that held a row
\* already.
C32_Witness ==
    /\ last.op = "log_audit_event"
    /\ last.raised = NULL
    /\ last.ctx.uid = NULL
    /\ Cardinality(auditLogs) = 2
    /\ \E r \in auditLogs : r.id = auditSeq /\ r.user_id = NULL

\* C33: a log_audit_event call whose INSERT fails does not raise to its
\* caller.
C33_AuditFailureSwallowed ==
    last.op = "log_audit_event" => last.raised = NULL

\* The step is a check_user_permission call that denied access.
DeniedCheck ==
    /\ last = Idle
    /\ last'.op = "check_user_permission"
    /\ last'.result = FALSE

\* C34: every step that creates or changes a profile row, and every denied
\* permission check, records an audit event in the same step.
C34_MutationsAudited ==
    [][(profiles' # profiles \/ DeniedCheck) =>
          (auditLogs \subseteq auditLogs' /\ auditLogs' # auditLogs)]_vars


\* --------------------------------------------------------- browser client

\* getSupabaseClient had at most one client built, and every call of it
\* returned that client.
Memoized ==
    /\ Cardinality({i \in DOMAIN constructed :
                      constructed[i] = "getSupabaseClient"}) <= 1
    /\ \A h \in holds :
          h.holder = "getSupabaseClient" =>
              /\ clientInstance = Some(h.client)
              /\ constructed[h.client] = "getSupabaseClient"

\* The client the auth context and the callback runs work with is the
\* memoized one.
OnlyMemoShared ==
    \A h \in holds :
        h.holder \in {"auth-context", "handleAuthCallback"} =>
            clientInstance = Some(h.client)

\* C35: after any sequence of getSupabaseClient calls the client was built at
\* most once through it and every call returned that client, and the
\* memoized client is the provider client the auth context and the callback
\* reconciler share.
C35_MemoizedClientShared == Memoized /\ OnlyMemoShared


\* ------------------------------------------------ AuthGuard, AuthProvider

\* The state AuthGuard rendered with: hydrated, loading over, and a user or
\* none.
GuardSees(hasUser) ==
    /\ guard.seen.isHydrated
    /\ ~guard.seen.loading
    /\ (guard.seen.user # None) = hasUser

\* C36: AuthGuard shows its children only while it is hydrated, loading is
\* false and user is non-null, and a step calls router.push(redirectTo) only
\* from a state where it is hydrated, loading is false and user is null.
C36_GuardGates ==
    /\ [](guard.view = "children" => GuardSees(TRUE))
    /\ [][routed' # routed =>
            (GuardSees(FALSE) /\ routed' = Append(routed, redirectTo))]_vars

\* AuthGuard redirected a visitor without user, who then signed in: the
\* children are shown.
C36_Witness ==
    /\ Len(routed) = 1
    /\ guard.view = "children"

\* C37: a mounted AuthProvider whose provider calls answer gets loading =
\* false (as long as it stays mounted), and loading never returns to true.
C37_LoadingEnds ==
    /\ (authCtx.mounted = "yes") ~>
           (authCtx.mounted # "yes" \/ ~authCtx.loading)
    /\ [][~authCtx.loading => ~authCtx'.loading]_vars

\* getUser failed, no auth state change was delivered, and loading is over.
C37_Witness ==
    /\ authCtx.mounted = "yes"
    /\ authCtx.verifyFailed
    /\ authCtx.events = 0
    /\ ~authCtx.loading

\* getInitialUser has ended, and no effect and no render is pending.
Settles ==
    /\ authCtx.mounted = "yes"
    /\ authCtx.pc = "done"
    /\ ~EffectsPending
    /\ ~RenderPending

\* After a failed getUser the mounted provider's user stays null until an
\* auth state change delivers a session.
NoUserAfterFailedVerification ==
    (authCtx.mounted = "yes" /\ authCtx.verifyFailed /\ ~authCtx.delivered)
        => authCtx.user = None

\* C38: AuthProvider never settles with a session and no user, and shows no
\* user after getUser failed unless a later auth state change delivered a
\* session.
C38_UserSessionConsistent ==
    /\ Settles => ~(authCtx.session # None /\ authCtx.user = None)
    /\ NoUserAfterFailedVerification

====
